---- MODULE Spec2Model ----
(***************************************************************************)
(* BDSP-Batch-Editor: the container round trip (extract, identify, edit,   *)
(* re-inject) of core/masterdata_handler.py and                            *)
(* core/personal_masterdatas_handler.py, and the FileUnpacker of           *)
(* core/unpacker_old.py (multi-family) that drives the handlers; and the   *)
(* level editor of core/level_editor.py with Apply Changes of              *)
(* gui/main_window.py.                                                     *)
(*                                                                         *)
(* Strings are sequences of tokens. Every token stands for a fixed piece   *)
(* of text, no token is a prefix of another, so two token sequences are    *)
(* equal exactly when the strings they stand for are equal.                *)
(*                                                                         *)
(* What the model takes from the environment:                              *)
(*  - file names are case-sensitive (two names that differ in case are     *)
(*    two files);                                                          *)
(*  - shutil.rmtree removes the directory it is given;                     *)
(*  - rapidjson.load(rapidjson.dump(tree)) is tree;                        *)
(*  - UnityPy.load of a file that is no container has no objects, and      *)
(*    env.file.save raises on it;                                          *)
(*  - os.listdir may list the files in any order.                          *)
(*                                                                         *)
(* core/unpacker_old.py defines save_trainer_file, cleanup and __del__     *)
(* twice in the class body (133-166 / 274-299, 242-251 / 360-369); the     *)
(* model follows the first definitions, whose signatures are the ones      *)
(* gui/main_window.py and core/export_manager.py call.                     *)
(***************************************************************************)
EXTENDS Integers, Sequences, FiniteSets, TLC

VARIABLES
    disk,   \* the files outside the temporary directories: path -> content
    tmp,    \* the temporary directories made by tempfile.mkdtemp: id -> directory
    made,   \* how many temporary directories mkdtemp has made so far
    writes, \* how many times an extracted file was written or removed so far
    h,      \* a handler object used directly (MasterdataHandler or PersonalMasterdataHandler)
    u,      \* the FileUnpacker object, with the handler it holds
    last,   \* the call that ended last: its name, arguments and outcome
    records, \* the record collection the level editor works on (trainer_poke_data)
    history, \* LevelEditor.modification_history
    ret,     \* what the last call on the level editor returned or raised
    window,  \* the main window: the original collection and the unpacker's list
    loads,   \* the loads the main window runs in background threads
    clears   \* how many times the history was cleared so far

\* the state of the level editor, of the collection it is given and of the
\* main window
levelVars == <<records, history, ret, window, loads, clears>>

vars == <<disk, tmp, made, writes, h, u, last, levelVars>>

---------------------------------------------------------------------------
(* Bounds of the model *)

\* objects of interest (MonoBehaviour) in a generated container
MaxObjs == 3
\* temporary directories mkdtemp may make in one run
MaxTmp == 2
\* writes to and removals of extracted files in one run
MaxWrites == 2
\* payload values a data tree may carry (0 .. MaxData)
MaxData == 1
\* records of a collection
MaxRecs == 2
\* entries the modification history may hold
MaxHistory == 1
\* characters of a text given to parse_level_modification
MaxLen == 3

\* the objects of a container the locators are run on
MaxLocated == 2
\* calls of clear_history in one run
MaxClears == 1
\* background loads in one run
MaxThreads == 2

---------------------------------------------------------------------------
(* Values *)

None == "None"

\* file contents
NoFile == [kind |-> "nofile"]           \* no file at the path
EmptyFile == [kind |-> "empty"]         \* a file of zero bytes (opened "wb", nothing written)
Corrupt == [kind |-> "corrupt"]         \* text that rapidjson.load cannot parse
\* a Unity container: its objects, and how its bytes were packed ("source": as
\* shipped; "(64, 2)": written by env.file.save(packer=(64, 2)))
Bundle(packer, objects) == [kind |-> "bundle", packer |-> packer, objects |-> objects]

\* a directory that does not exist (never made, or removed)
NoDir == [kind |-> "nodir"]

\* a path attribute that is None
NoPath == [dir |-> None, file |-> <<>>]

\* a data value that is None or an empty dict (both are false in "if not data")
NoData == [kind |-> "nodata"]

\* a loaded dict: the tree itself (wrap = None), or {wrap: tree}
Data(wrap, tree) == [kind |-> "dict", wrap |-> wrap, tree |-> tree]

\* export_types of _unpack_assets and _repack_assets
export_types == {"MonoBehaviour"}

\* the marker of a tree without the key "m_Script" / a PPtr that resolves nowhere
NoScriptKey == -1
NullPathID == 0

\* str(path_id), one token per path id
PidStr(p) == <<"1", "2", "3", "4", "5", "6", "7", "8", "9">>[p]

\* str.upper(), token by token
UpperTok(t) ==
    CASE t = "x" -> "X"
      [] t = "s" -> "S"
      [] t = "d" -> "D"
      [] t = "MonoBehaviour" -> "MONOBEHAVIOUR"
      [] t = "TrainerTable" -> "TRAINERTABLE"
      [] t = "trainertable" -> "TRAINERTABLE"
      [] t = "TrainerPoke" -> "TRAINERPOKE"
      [] t = "trainerpoke" -> "TRAINERPOKE"
      [] t = "PersonalTable" -> "PERSONALTABLE"
      [] t = ".json" -> ".JSON"
      [] OTHER -> t

Upper(s) == [i \in 1..Len(s) |-> UpperTok(s[i])]

\* str.lower(), token by token
LowerTok(t) ==
    CASE t = "X" -> "x"
      [] t = "MonoBehaviour" -> "monobehaviour"
      [] t = "TrainerTable" -> "trainertable"
      [] t = "TrainerPoke" -> "trainerpoke"
      [] t = "PersonalTable" -> "personaltable"
      [] OTHER -> t

Lower(s) == [i \in 1..Len(s) |-> LowerTok(s[i])]

\* os.path.basename: what follows the last separator
RECURSIVE LastSep(_, _)
LastSep(s, i) == IF i = 0 THEN 0 ELSE IF s[i] = "/" THEN i ELSE LastSep(s, i - 1)

Basename(s) == SubSeq(s, LastSep(s, Len(s)) + 1, Len(s))

\* f"{name}.json"
JsonFile(name) == name \o <<".json">>

\* f"{name}_{obj.type.name}_{obj.path_id}"
Disambiguated(name, type, pid) == name \o <<"_", type, "_", PidStr(pid)>>

\* f"unnamed_{obj.path_id}"
Unnamed(pid) == <<"unnamed_", PidStr(pid)>>

\* dict[key] = value on a dict (a function with a finite domain)
Put(f, k, v) == [x \in (DOMAIN f) \cup {k} |-> IF x = k THEN v ELSE f[x]]

EmptyDict == [x \in {} |-> None]

---------------------------------------------------------------------------
(* Containers.  A container is the sequence env.objects; an object has a  *)
(* path_id, a type name and a typetree.  A typetree is abstracted to the   *)
(* fields the handlers read: whether it has "m_Name" and its value, the    *)
(* path id in "m_Script" (NoScriptKey when the key is missing), its        *)
(* top-level table key and a payload.                                      *)

Tree(has, name, script, key, data) ==
    [has_name |-> has, m_Name |-> name, script |-> script, key |-> key, data |-> data]

Obj(pid, type, tree) == [path_id |-> pid, type |-> type, tree |-> tree]

\* the MonoScript object the unnamed MonoBehaviours may point to
ScriptPid == MaxObjs + 1

ScriptObj == Obj(ScriptPid, "MonoScript", Tree(TRUE, <<"s">>, NoScriptKey, "none", 0))

\* rapidjson.dump(tree, f): the text of a file holding the tree
Dump(tree) == [kind |-> "json", json |-> tree]

\* rapidjson.load(f): the tree of a file's text; fails on text that is no JSON
CanLoad(text) == text.kind = "json"

Load(text) == text.json

---------------------------------------------------------------------------
(* Name derivation at extraction: masterdata_handler.py 83-97 *)

\* tree["m_Name"] if "m_Name" in tree else ""
DeclaredName(tree) == IF tree.has_name THEN tree.m_Name ELSE <<>>

\* for script in env.objects: if script.path_id == script_path_id: name = script.read().name
RECURSIVE ScriptLookup(_, _, _, _)
ScriptLookup(env, i, script_path_id, name) ==
    IF i > Len(env) THEN name
    ELSE ScriptLookup(env, i + 1, script_path_id,
                      IF env[i].path_id = script_path_id
                      THEN DeclaredName(env[i].tree) ELSE name)

\* the name before os.path.basename; tree["m_Script"] raises KeyError without the key
NominalName(env, obj) ==
    LET name == DeclaredName(obj.tree) IN
    IF name # <<>> THEN [ok |-> TRUE, name |-> name]
    ELSE IF obj.tree.script = NoScriptKey THEN [ok |-> FALSE, name |-> <<>>]
    ELSE [ok |-> TRUE, name |-> ScriptLookup(env, 1, obj.tree.script, name)]

---------------------------------------------------------------------------
(* Extraction: _unpack_assets, masterdata_handler.py 60-121 and            *)
(* personal_masterdatas_handler.py 111-172 (the same text).                *)

\* env.objects of UnityPy.load(src_path); a file that is no container has none
UnityObjects(text) == IF text.kind = "bundle" THEN text.objects ELSE <<>>

\* a comparison of fp as it is, without upper()
InFpsNoUpper(fps, fp) == \E j \in 1..Len(fps) : fps[j] = fp

\* fp.upper() in existing_fps
InFps(fps, fp) == \E j \in 1..Len(fps) : fps[j] = Upper(fp)

\* the name _unpack_assets assigns: the nominal name, or on a collision the
\* disambiguated one (which is not compared against existing_fps again)
AssignedName(fps, name, obj) ==
    IF InFps(fps, JsonFile(name))
    THEN Disambiguated(name, obj.type, obj.path_id)
    ELSE name

\* the loop over env.objects from object i on.  acc: the files written to
\* Export, path_dic, existing_fps and the exception raised, if any.
\* fault = i: reading or writing object i raises.
\* one object of interest with the name assigned to it: its file written,
\* its entry in path_dic, its path in existing_fps (105-113)
Emit(acc, obj, assigned) ==
    [files |-> Put(acc.files, JsonFile(assigned), Dump(obj.tree)),
     dic |-> Put(acc.dic, PidStr(obj.path_id), assigned),
     fps |-> Append(acc.fps, Upper(JsonFile(assigned))),
     err |-> None]

\* one object of interest with its nominal name (97-113), or the KeyError of
\* the name derivation
ScanObject(acc, obj, nom) ==
    IF ~nom.ok THEN [acc EXCEPT !.err = "KeyError"]
    ELSE Emit(acc, obj, AssignedName(acc.fps, Basename(nom.name), obj))

RECURSIVE ScanObjects(_, _, _, _)
ScanObjects(env, i, acc, fault) ==
    IF i > Len(env) \/ acc.err # None THEN acc
    ELSE IF env[i].type \notin export_types THEN ScanObjects(env, i + 1, acc, fault)
    ELSE IF fault = i THEN [acc EXCEPT !.err = "OSError"]
    ELSE ScanObjects(env, i + 1, ScanObject(acc, env[i], NominalName(env, env[i])), fault)

ScanStart == [files |-> EmptyDict, dic |-> EmptyDict, fps |-> <<>>, err |-> None]

\* f"{filename}_pathIDs.json"
SidecarName(src_path) == <<src_path, "_pathIDs.json">>

\* the temporary directory after _unpack_assets, with the exception it raised
\* (None when it returned).  fault = Len(env) + 1: writing the sidecar raises.
WriteSidecar(acc, src_path, by, sidecarFails) ==
    [dir |-> [kind |-> "dir", by |-> by, Export |-> acc.files,
              pathIDs |-> IF acc.err = None /\ ~sidecarFails
                          THEN Put(EmptyDict, SidecarName(src_path), acc.dic)
                          ELSE EmptyDict],
     err |-> IF acc.err = None /\ sidecarFails THEN "OSError" ELSE acc.err]

UnpackAssets(text, src_path, by, fault) ==
    WriteSidecar(ScanObjects(UnityObjects(text), 1, ScanStart, fault), src_path, by,
                 fault = Len(UnityObjects(text)) + 1)

---------------------------------------------------------------------------
(* Handler objects: MasterdataHandler.__init__ (masterdata_handler.py      *)
(* 19-23) and PersonalMasterdataHandler.__init__ (18-22).                  *)

NewHandler(kind) ==
    [kind |-> kind, current_file_path |-> None, temp_dir |-> None,
     trainer_table_path |-> NoPath, extracted_files |-> EmptyDict,
     path_ids_file |-> NoPath]

\* the attribute FileUnpacker.handler when it is None
NoHandler == [kind |-> None]

\* tempfile.mkdtemp: the n-th directory it makes
TmpName(n) == <<"tmp1", "tmp2", "tmp3", "tmp4", "tmp5", "tmp6">>[n]

TmpNames == {TmpName(n) : n \in 1..MaxTmp}

DirExists(T, d) == d \in DOMAIN T /\ T[d].kind = "dir"

\* a cleanup that resets the attributes and leaves the directory on disk
CleanupKeepsDir(hd, T) ==
    [h |-> [hd EXCEPT !.temp_dir = None,
                      !.current_file_path = None,
                      !.trainer_table_path = NoPath,
                      !.path_ids_file = NoPath,
                      !.extracted_files = EmptyDict],
     tmp |-> T]

\* cleanup(): MasterdataHandler 262-270 keeps temp_dir when the directory is
\* gone already, PersonalMasterdataHandler 326-337 always resets it.
Cleanup(hd, T) ==
    LET there == hd.temp_dir # None /\ DirExists(T, hd.temp_dir)
        T1 == IF there THEN [T EXCEPT ![hd.temp_dir] = NoDir] ELSE T
    IN  IF hd.kind = "masterdatas"
        THEN [h |-> [hd EXCEPT !.temp_dir = IF there THEN None ELSE hd.temp_dir,
                               !.current_file_path = None,
                               !.trainer_table_path = NoPath,
                               !.path_ids_file = NoPath],
              tmp |-> T1]
        ELSE [h |-> [hd EXCEPT !.temp_dir = None,
                               !.path_ids_file = NoPath,
                               !.extracted_files = EmptyDict,
                               !.current_file_path = None],
              tmp |-> T1]

---------------------------------------------------------------------------
(* Content Locator *)

EndsWithJson(f) == Len(f) > 0 /\ f[Len(f)] = ".json"

\* trainer_table_candidates, masterdata_handler.py 131-136
trainer_table_candidates ==
    << <<"TrainerTable", ".json">>, <<"trainertable", ".json">>,
       <<"TrainerPoke", ".json">>, <<"trainerpoke", ".json">> >>

\* the files whose parsed content is a dict with the key "TrainerPoke" (149-159)
SniffMatches(files) ==
    {f \in DOMAIN files : EndsWithJson(f) /\ CanLoad(files[f])
                          /\ Load(files[f]).key = "TrainerPoke"}

SniffedFirstChoices(files) ==
    LET hits == {i \in 1..Len(trainer_table_candidates) :
                    trainer_table_candidates[i] \in DOMAIN files}
    IN  IF SniffMatches(files) # {} THEN SniffMatches(files)
        ELSE IF hits # {}
        THEN {trainer_table_candidates[CHOOSE i \in hits : \A j \in hits : i <= j]}
        ELSE {<<>>}

\* the values trainer_table_path can get (<<>>: not found): the first candidate
\* that exists, else the first sniffing match in the order of os.listdir,
\* which is any of them
TrainerTableChoices(files) ==
    LET hits == {i \in 1..Len(trainer_table_candidates) :
                    trainer_table_candidates[i] \in DOMAIN files}
    IN  IF hits # {}
        THEN {trainer_table_candidates[CHOOSE i \in hits : \A j \in hits : i <= j]}
        ELSE IF SniffMatches(files) # {} THEN SniffMatches(files) ELSE {<<>>}

\* the keywords of _map_filename_to_content found in a lowercased token
Keywords(tok) ==
    CASE tok = "personaltable" -> {"personal"}
      [] tok = "pokemon" -> {"pokemon"}
      [] OTHER -> {}

HasKeyword(filename_lower, kw) ==
    \E i \in 1..Len(filename_lower) : kw \in Keywords(filename_lower[i])

\* _map_filename_to_content, personal_masterdatas_handler.py 189-213
MapFilenameToContent(filename) ==
    LET filename_lower == Lower(filename) IN
    IF HasKeyword(filename_lower, "personal") \/ HasKeyword(filename_lower, "pokemon")
        THEN "PersonalTable"
    ELSE IF HasKeyword(filename_lower, "ability") THEN "AbilityTable"
    ELSE IF HasKeyword(filename_lower, "move") THEN "MoveTable"
    ELSE IF HasKeyword(filename_lower, "item") THEN "ItemTable"
    ELSE IF HasKeyword(filename_lower, "type") THEN "TypeTable"
    ELSE None

\* the files _catalog_extracted_files can leave under "PersonalTable" (<<>>:
\* none): the last one in the order of os.listdir, which is any of them
PersonalChoices(files) ==
    LET m == {f \in DOMAIN files : EndsWithJson(f)
                                   /\ MapFilenameToContent(f) = "PersonalTable"}
    IN  IF m # {} THEN m ELSE {<<>>}

LocateChoices(kind, files) ==
    IF kind = "masterdatas" THEN TrainerTableChoices(files) ELSE PersonalChoices(files)

\* the text of the file at a path inside a temporary directory
ReadTmp(T, path) ==
    IF path.dir # None /\ DirExists(T, path.dir) /\ path.file \in DOMAIN T[path.dir].Export
    THEN T[path.dir].Export[path.file]
    ELSE NoFile

\* _find_and_load_trainer_table (123-168): the handler, the data returned and
\* the exception raised.  ioFails: the final read raises.
FindAndLoadTrainerTable(hd, T, pick, ioFails) ==
    IF pick = <<>> THEN [h |-> hd, data |-> NoData, err |-> None]
    ELSE LET path == [dir |-> hd.temp_dir, file |-> pick]
             h1 == [hd EXCEPT !.trainer_table_path = path]
         IN  IF ioFails \/ ~CanLoad(ReadTmp(T, path))
             THEN [h |-> h1, data |-> NoData, err |-> "OSError"]
             ELSE [h |-> h1, data |-> Data(None, Load(ReadTmp(T, path))), err |-> None]

\* _catalog_extracted_files (174-187) and load_content("PersonalTable")
\* (90-109), which swallows every exception of the read
CatalogAndLoad(hd, T, pick, ioFails) ==
    LET h1 == IF pick = <<>> THEN hd
              ELSE [hd EXCEPT !.extracted_files =
                        Put(hd.extracted_files, "PersonalTable",
                            [dir |-> hd.temp_dir, file |-> pick])]
        text == IF "PersonalTable" \in DOMAIN h1.extracted_files
                THEN ReadTmp(T, h1.extracted_files["PersonalTable"])
                ELSE NoFile
    IN  [h |-> h1,
         data |-> IF ~ioFails /\ CanLoad(text)
                  THEN Data("PersonalTable", Load(text))
                  ELSE NoData,
         err |-> None]

---------------------------------------------------------------------------
(* unpack_masterdata after the os.path.exists check: masterdata_handler.py *)
(* 42-58, personal_masterdatas_handler.py 43-65.  n: the directories made  *)
(* so far.  fault: 0 none, i the step at object i raises, Len+1 the        *)
(* sidecar write raises, Len+2 the read of the located table raises.       *)

\* the except clause (56-58): what cleanup() leaves, and the wrapped error
UnpackFailed(cleaned) ==
    [h |-> cleaned.h, tmp |-> cleaned.tmp, res |-> "Failed to unpack", data |-> NoData]

\* the locator of the handler's class (52, 53-61)
Locate(hd, T, pick, ioFails) ==
    IF hd.kind = "masterdatas"
    THEN FindAndLoadTrainerTable(hd, T, pick, ioFails)
    ELSE CatalogAndLoad(hd, T, pick, ioFails)

\* the end of the try block, given what the locator returned or raised
Located(loc, T) ==
    IF loc.err # None THEN UnpackFailed(Cleanup(loc.h, T))
    ELSE [h |-> loc.h, tmp |-> T, res |-> "ok", data |-> loc.data]

\* the try block (47-58), given what _unpack_assets raised and the
\* directories it left; h1: the handler with current_file_path and temp_dir set
Extracted(h1, err, T, src_path, pick, ioFails) ==
    IF err # None THEN UnpackFailed(Cleanup(h1, T))
    ELSE Located(Locate([h1 EXCEPT !.path_ids_file =
                                [dir |-> h1.temp_dir, file |-> SidecarName(src_path)]],
                        T, pick, ioFails),
                 T)

\* the directories with the directory d as _unpack_assets left it
WithDir(h1, ua, T, src_path, pick, ioFails) ==
    Extracted(h1, ua.err, [T EXCEPT ![h1.temp_dir] = ua.dir], src_path, pick, ioFails)

UnpackMasterdata(hd, by, T, n, text, src_path, fault, pick) ==
    WithDir([hd EXCEPT !.current_file_path = src_path, !.temp_dir = TmpName(n + 1)],
            UnpackAssets(text, src_path, by, fault), T, src_path, pick,
            fault = Len(UnityObjects(text)) + 2)

\* the picks the locator can make on the directory _unpack_assets leaves
PicksOn(kind, ua) ==
    IF ua.err # None THEN {<<>>} ELSE LocateChoices(kind, ua.dir.Export)

UnpackPicks(kind, text, src_path, fault) ==
    PicksOn(kind, UnpackAssets(text, src_path, "h", fault))

UnpackFaults(text) == 0..(Len(UnityObjects(text)) + 2)

---------------------------------------------------------------------------
(* Rebuild: repack_masterdata and _repack_assets, masterdata_handler.py    *)
(* 184-256, personal_masterdatas_handler.py 249-320 (the same text).       *)

\* _get_object_name (242-256), the fallback for a path id the map lacks
GetObjectName(env, obj) ==
    LET nom == NominalName(env, obj) IN
    IF ~nom.ok THEN nom
    ELSE [ok |-> TRUE,
          name |-> IF nom.name # <<>> THEN Basename(nom.name) ELSE Unnamed(obj.path_id)]

\* a rebuild that derives the name again instead of reading the map
ResolveNameAgain(env, obj, path_dic) == GetObjectName(env, obj)

\* the name of an object at rebuild (222-228): the one the map holds for its
\* path id, else the fallback
ResolveName(env, obj, path_dic) ==
    IF PidStr(obj.path_id) \in DOMAIN path_dic
    THEN [ok |-> TRUE, name |-> path_dic[PidStr(obj.path_id)]]
    ELSE GetObjectName(env, obj)

\* the loop over env.objects from object i on: the objects of the rebuilt
\* container so far and the exception raised.  fault = i: save_typetree
\* raises on object i.
RECURSIVE RepackObjects(_, _, _, _, _, _)

\* object i with the name nom resolved for it (230-235), and the objects after it
RepackFrom(env, i, out, path_dic, files, fault, nom) ==
    IF ~nom.ok THEN [objects |-> out, err |-> "KeyError"]
    ELSE IF JsonFile(nom.name) \notin DOMAIN files
    THEN RepackObjects(env, i + 1, Append(out, env[i]), path_dic, files, fault)
    ELSE IF ~CanLoad(files[JsonFile(nom.name)])
    THEN [objects |-> out, err |-> "JSONDecodeError"]
    ELSE IF fault = i THEN [objects |-> out, err |-> "save_typetree"]
    ELSE RepackObjects(env, i + 1,
             Append(out, [env[i] EXCEPT !.tree = Load(files[JsonFile(nom.name)])]),
             path_dic, files, fault)

RepackObjects(env, i, out, path_dic, files, fault) ==
    IF i > Len(env) THEN [objects |-> out, err |-> None]
    ELSE IF env[i].type \notin export_types
    THEN RepackObjects(env, i + 1, Append(out, env[i]), path_dic, files, fault)
    ELSE RepackFrom(env, i, out, path_dic, files, fault,
                    ResolveName(env, env[i], path_dic))

\* a rebuild that patches the source in place
DestinationSource(hd, output_path) == hd.current_file_path

\* the file _repack_assets opens for writing (238-239): output_path, never
\* the source
Destination(hd, output_path) == output_path

\* the end of _repack_assets (237-240) after the loop returned r: the files
\* outside the temporary directories and the outcome.  text: the source.
WriteContainer(D, dest, text, fault, r) ==
    IF r.err # None \/ fault = Len(UnityObjects(text)) + 1
    THEN [disk |-> D, res |-> "Failed to repack"]
    ELSE IF fault = Len(UnityObjects(text)) + 2 \/ text.kind # "bundle"
    THEN [disk |-> [D EXCEPT ![dest] = EmptyFile], res |-> "Failed to repack"]
    ELSE [disk |-> [D EXCEPT ![dest] = Bundle("(64, 2)", r.objects)], res |-> "ok"]

\* repack_masterdata(output_path): the files outside the temporary
\* directories afterwards and the outcome.  fault: 0 none, i save_typetree
\* raises on object i, Len+1 os.makedirs or open(output_path) raises, Len+2
\* env.file.save raises (output_path is open for writing by then).
NotLoadedUnchecked(hd) == FALSE

\* the guard of repack_masterdata: no file is currently loaded
NotLoaded(hd) == hd.current_file_path = None \/ hd.temp_dir = None

RepackMasterdata(hd, D, T, output_path, fault) ==
    IF NotLoaded(hd)
    THEN [disk |-> D, res |-> "No file loaded"]
    ELSE IF hd.path_ids_file = NoPath
            \/ ~DirExists(T, hd.path_ids_file.dir)
            \/ hd.path_ids_file.file \notin DOMAIN T[hd.path_ids_file.dir].pathIDs
            \/ ~DirExists(T, hd.temp_dir)
    THEN [disk |-> D, res |-> "Failed to repack"]
    ELSE WriteContainer(D, Destination(hd, output_path), D[hd.current_file_path], fault,
             RepackObjects(UnityObjects(D[hd.current_file_path]), 1, <<>>,
                           T[hd.path_ids_file.dir].pathIDs[hd.path_ids_file.file],
                           T[hd.temp_dir].Export, fault))

RepackFaults(D, hd) ==
    IF hd.current_file_path = None THEN {0}
    ELSE 0..(Len(UnityObjects(D[hd.current_file_path])) + 2)

---------------------------------------------------------------------------
(* The files outside the temporary directories.  A path is one string; the *)
(* three paths stand for a masterdatas file, a personal_masterdatas file   *)
(* and a destination chosen by the caller.                                 *)

SrcA == "masterdatas"
SrcB == "personal_masterdatas"
Out == "export.bin"

Missing == "missing"

\* the paths the model loads from
Sources == {SrcA, SrcB, Missing}

Paths == {SrcA, SrcB, Out, Missing}

\* f"{self.current_file_path}.backup"
BackupPath(p) ==
    CASE p = SrcA -> "masterdatas.backup"
      [] p = SrcB -> "personal_masterdatas.backup"
      [] p = Out -> "export.bin.backup"
      [] OTHER -> "missing.backup"

AllPaths == Paths \cup {BackupPath(p) : p \in Paths}

\* os.path.exists
Exists(D, p) == D[p].kind # "nofile"

\* FileDetector.get_file_type (file_detector.py 80-111) on the three paths
GetFileType(p) ==
    IF p = SrcA THEN "masterdatas"
    ELSE IF p = SrcB THEN "personal_masterdatas"
    ELSE None

Kinds == {"masterdatas", "personal_masterdatas"}

Called(op, path, res) == [op |-> op, path |-> path, res |-> res]

---------------------------------------------------------------------------
(* A handler used directly: the calls on h *)

\* unpack_masterdata(masterdata_path)
unpack_masterdata ==
    \E p \in Sources :
        IF ~Exists(disk, p)
        THEN /\ last' = Called("unpack_masterdata", p, "FileNotFoundError")
             /\ UNCHANGED <<levelVars, disk, tmp, made, writes, h, u>>
        ELSE /\ made < MaxTmp
             /\ \E fault \in UnpackFaults(disk[p]) :
                \E pick \in UnpackPicks(h.kind, disk[p], p, fault) :
                \E r \in {UnpackMasterdata(h, "h", tmp, made, disk[p], p, fault, pick)} :
                    /\ h' = r.h
                    /\ tmp' = r.tmp
                    /\ made' = made + 1
                    /\ last' = Called("unpack_masterdata", p, r.res)
             /\ UNCHANGED <<levelVars, disk, writes, u>>

\* the text save_data / save_content writes, and the path it writes to
\* (masterdata_handler.py 170-182, personal_masterdatas_handler.py 215-247)
SavePath(hd) ==
    IF hd.kind = "masterdatas" THEN hd.trainer_table_path
    ELSE IF "PersonalTable" \in DOMAIN hd.extracted_files
         THEN hd.extracted_files["PersonalTable"]
         ELSE NoPath

SaveData(hd, T, data) ==
    LET path == SavePath(hd) IN
    IF path = NoPath \/ ~DirExists(T, path.dir)
    THEN [tmp |-> T, res |-> "not loaded"]
    ELSE [tmp |-> [T EXCEPT ![path.dir].Export = Put(@, path.file, Dump(data.tree))],
          res |-> "ok"]

\* the trees a caller may pass to save_data: the located table with another payload
Payloads == 0..MaxData

EditedTrees(T, hd) ==
    IF CanLoad(ReadTmp(T, SavePath(hd)))
    THEN {[Load(ReadTmp(T, SavePath(hd))) EXCEPT !.data = v] : v \in Payloads}
    ELSE {}

\* save_data(data)
save_data ==
    /\ \/ /\ writes < MaxWrites
          /\ \E t \in EditedTrees(tmp, h) :
                \E r \in {SaveData(h, tmp, Data(None, t))} :
                    /\ tmp' = r.tmp
                    /\ last' = Called("save_data", SavePath(h).file, r.res)
          /\ writes' = writes + 1
       \/ /\ SavePath(h) = NoPath
          /\ tmp' = tmp
          /\ writes' = writes
          /\ last' = Called("save_data", <<>>, "not loaded")
    /\ UNCHANGED <<levelVars, disk, made, h, u>>

\* repack_masterdata(output_path)
repack_masterdata ==
    \E out \in {Out} : \E fault \in RepackFaults(disk, h) :
        \E r \in {RepackMasterdata(h, disk, tmp, out, fault)} :
            /\ disk' = r.disk
            /\ last' = Called("repack_masterdata", out, r.res)
            /\ UNCHANGED <<levelVars, tmp, made, writes, h, u>>

\* cleanup()
cleanup ==
    /\ \E r \in {Cleanup(h, tmp)} :
        /\ h' = r.h
        /\ tmp' = r.tmp
    /\ last' = Called("cleanup", None, "ok")
    /\ UNCHANGED <<levelVars, disk, made, writes, u>>

\* The working directory is on disk: between extraction and rebuild its
\* files are changed by the user or another tool.  An extracted file of h's
\* directory gets another payload, or text that is no JSON.
EditExtractedFile ==
    /\ writes < MaxWrites
    /\ writes' = writes + 1
    /\ h.temp_dir # None /\ DirExists(tmp, h.temp_dir)
    /\ \E f \in DOMAIN tmp[h.temp_dir].Export :
       \E text \in {Corrupt} \cup
                   (IF CanLoad(tmp[h.temp_dir].Export[f])
                    THEN {Dump([Load(tmp[h.temp_dir].Export[f]) EXCEPT !.data = v]) :
                            v \in Payloads}
                    ELSE {}) :
            /\ text # tmp[h.temp_dir].Export[f]
            /\ tmp' = [tmp EXCEPT ![h.temp_dir].Export[f] = text]
            /\ last' = Called("edit", f, "ok")
    /\ UNCHANGED <<levelVars, disk, made, h, u>>

\* ... or is removed.
RemoveExtractedFile ==
    /\ writes < MaxWrites
    /\ writes' = writes + 1
    /\ h.temp_dir # None /\ DirExists(tmp, h.temp_dir)
    /\ \E f \in DOMAIN tmp[h.temp_dir].Export :
            /\ tmp' = [tmp EXCEPT ![h.temp_dir].Export =
                          [g \in (DOMAIN @) \ {f} |-> @[g]]]
            /\ last' = Called("remove", f, "ok")
    /\ UNCHANGED <<levelVars, disk, made, h, u>>

---------------------------------------------------------------------------
(* FileUnpacker, core/unpacker_old.py (the multi-family unpacker whose     *)
(* load_trainer_file(file_path, file_type) and                             *)
(* save_trainer_file(output_path, create_backup) the GUI and the           *)
(* ExportManager call).                                                    *)

\* __init__, 20-25
NewUnpacker ==
    [current_file_path |-> None, current_file_type |-> None,
     trainer_data |-> NoData, backup_created |-> FALSE, handler |-> NoHandler]

\* "if self.handler: self.handler.cleanup(); self.handler = None" (54-56, 75-77)
DropHandler(ud, T) ==
    IF ud.handler = NoHandler THEN [u |-> ud, tmp |-> T]
    ELSE [u |-> [ud EXCEPT !.handler = NoHandler], tmp |-> Cleanup(ud.handler, T).tmp]

\* the file type load_trainer_file works with: the hint, or the detected type
FileTypeOf(file_path, hint) == IF hint = None THEN GetFileType(file_path) ELSE hint

\* load_trainer_file(file_path, file_type), 43-78, once the file exists and
\* its type is known: the unpacker, the directories and the outcome
\* the try block (58-78) given what unpack_masterdata did (r); ud: the
\* unpacker without its previous handler
TryLoad(ud, r, n, file_path, file_type) ==
    IF r.res # "ok" \/ r.data = NoData
    THEN [u |-> ud, tmp |-> Cleanup(r.h, r.tmp).tmp, made |-> n + 1,
          res |-> "Failed to load"]
    ELSE [u |-> [ud EXCEPT !.handler = r.h,
                           !.current_file_path = file_path,
                           !.current_file_type = file_type,
                           !.trainer_data = r.data],
          tmp |-> r.tmp, made |-> n + 1, res |-> "ok"]

\* the load after the previous handler was dropped (d)
AfterDrop(d, D, n, file_path, file_type, fault, pick) ==
    IF file_type \notin Kinds
    THEN [u |-> d.u, tmp |-> d.tmp, made |-> n, res |-> "Failed to load"]
    ELSE TryLoad(d.u,
                 UnpackMasterdata(NewHandler(file_type), "u", d.tmp, n,
                                  D[file_path], file_path, fault, pick),
                 n, file_path, file_type)

LoadTrainerFile(ud, D, T, n, file_path, file_type, fault, pick) ==
    AfterDrop(DropHandler(ud, T), D, n, file_path, file_type, fault, pick)

\* the file_type arguments: absent, a supported type, a type without handler
Hints == {None, "other"} \cup Kinds

load_trainer_file ==
    \E p \in Sources : \E hint \in Hints :
        IF ~Exists(disk, p)
        THEN /\ last' = Called("load_trainer_file", p, "FileNotFoundError")
             /\ UNCHANGED <<levelVars, disk, tmp, made, writes, h, u>>
        ELSE IF FileTypeOf(p, hint) = None
        THEN /\ last' = Called("load_trainer_file", p, "ValueError")
             /\ UNCHANGED <<levelVars, disk, tmp, made, writes, h, u>>
        ELSE /\ FileTypeOf(p, hint) \in Kinds => made < MaxTmp
             /\ \E fault \in UnpackFaults(disk[p]) :
                \E pick \in UnpackPicks(FileTypeOf(p, hint), disk[p], p, fault) :
                \E r \in {LoadTrainerFile(u, disk, tmp, made, p, FileTypeOf(p, hint),
                                           fault, pick)} :
                    /\ u' = r.u
                    /\ tmp' = r.tmp
                    /\ made' = r.made
                    /\ last' = Called("load_trainer_file", p, r.res)
             /\ UNCHANGED <<levelVars, disk, writes, h>>

\* update_trainer_poke_data(modified_data), 168-181; the payload of the tree
\* stands for the list under "TrainerPoke"
update_trainer_poke_data ==
    /\ IF u.trainer_data = NoData
       THEN /\ u' = u
            /\ last' = Called("update_trainer_poke_data", None, "ValueError")
       ELSE /\ u.trainer_data.wrap = None
            /\ \E v \in Payloads :
                /\ u' = [u EXCEPT !.trainer_data.tree.data = v,
                                  !.trainer_data.tree.key = "TrainerPoke"]
                /\ last' = Called("update_trainer_poke_data", None, "ok")
    /\ UNCHANGED <<levelVars, disk, tmp, made, writes, h>>

\* create_backup(), 107-131: the unpacker, the files and the outcome
CreateBackup(ud, D) ==
    IF ud.current_file_path = None THEN [u |-> ud, disk |-> D, res |-> "RuntimeError"]
    ELSE IF ud.backup_created THEN [u |-> ud, disk |-> D, res |-> "ok"]
    ELSE IF ~Exists(D, ud.current_file_path)
    THEN [u |-> ud, disk |-> D, res |-> "Failed to create backup"]
    ELSE [u |-> [ud EXCEPT !.backup_created = TRUE],
          disk |-> [D EXCEPT ![BackupPath(ud.current_file_path)] = D[ud.current_file_path]],
          res |-> "ok"]

create_backup ==
    /\ \E r \in {CreateBackup(u, disk)} :
        /\ u' = r.u
        /\ disk' = r.disk
        /\ last' = Called("create_backup", u.current_file_path, r.res)
    /\ UNCHANGED <<levelVars, tmp, made, writes, h>>

\* the outcome of the save, given what repack_masterdata did (r), 156-166
Saved(ud, r, save_path) ==
    [u |-> ud, disk |-> r.disk,
     res |-> IF r.res = "ok" THEN "ok" ELSE "Failed to save",
     save_path |-> save_path]

\* the save after the backup step (b), 154-166
AfterBackup(b, T, save_path, fault) ==
    IF b.res # "ok"
    THEN [u |-> b.u, disk |-> b.disk, res |-> b.res, save_path |-> save_path]
    ELSE Saved(b.u, RepackMasterdata(b.u.handler, b.disk, T, save_path, fault), save_path)

\* save_trainer_file(output_path, create_backup), 133-166
SaveTrainerFile(ud, D, T, output_path, backup, fault) ==
    IF ud.trainer_data = NoData \/ ud.current_file_path = None \/ ud.handler = NoHandler
    THEN [u |-> ud, disk |-> D, res |-> "RuntimeError", save_path |-> None]
    ELSE AfterBackup(IF backup /\ ~ud.backup_created THEN CreateBackup(ud, D)
                     ELSE [u |-> ud, disk |-> D, res |-> "ok"],
                     T,
                     IF output_path = None THEN ud.current_file_path ELSE output_path,
                     fault)

save_trainer_file ==
    \E output_path \in {Out, None} : \E backup \in BOOLEAN :
    \E fault \in (IF u.handler = NoHandler THEN {0} ELSE RepackFaults(disk, u.handler)) :
        \E r \in {SaveTrainerFile(u, disk, tmp, output_path, backup, fault)} :
            /\ u' = r.u
            /\ disk' = r.disk
            /\ last' = Called("save_trainer_file", r.save_path, r.res)
            /\ UNCHANGED <<levelVars, tmp, made, writes, h>>

\* cleanup(), 242-251
unpacker_cleanup ==
    /\ \E d \in {DropHandler(u, tmp)} :
        /\ u' = [d.u EXCEPT !.current_file_path = None,
                            !.current_file_type = None,
                            !.trainer_data = NoData,
                            !.backup_created = FALSE]
        /\ tmp' = d.tmp
    /\ last' = Called("unpacker_cleanup", None, "ok")
    /\ UNCHANGED <<levelVars, disk, made, writes, h>>

---------------------------------------------------------------------------
(* The level editor (core/level_editor.py).  A record of the collection    *)
(* has an "ID" and, for each of its six slots, a species id (PiMonsNo), a  *)
(* level (PiLevel) and a form (PiFormNo); a key that is absent reads as 0. *)
(*                                                                         *)
(* A magnitude is the decimal num / den, den a power of ten with no        *)
(* trailing zero kept, as float() reads it from a text.  The levels are    *)
(* integers.  The arithmetic below is exact; the binary floating point of  *)
(* the code gives the same levels for every absolute magnitude and for the *)
(* percentages that are multiples of 25 (1 + value / 100 is then a binary  *)
(* fraction), which are the percentages the specifications below draw.     *)

\* range(1, 7): the slots P1 .. P6
SlotCount == 6

Slots == 1..SlotCount

Dec(num, den) == [num |-> num, den |-> den]

Entry(id, mons, level) ==
    [ID |-> id, MonsNo |-> mons, Level |-> level, FormNo |-> [i \in Slots |-> 0]]

\* selected_trainers: None, or a list of ids
NoFilter == [kind |-> "None", ids |-> {}]

IdList(ids) == [kind |-> "list", ids |-> ids]

Max(a, b) == IF a >= b THEN a ELSE b

Min(a, b) == IF a <= b THEN a ELSE b

IntRounded(n, d) ==
    LET q == n \div d
        r == n % d
    IN  IF 2 * r < d THEN q
        ELSE IF 2 * r > d THEN q + 1
        ELSE IF q % 2 = 0 THEN q ELSE q + 1

\* int(n / d): the fraction is cut off, towards zero
IntOf(n, d) == IF n >= 0 THEN n \div d ELSE -((-n) \div d)

\* round(n / d) of Python 3: to the nearest integer, a tie to the even one
Round(n, d) ==
    LET q == n \div d
        r == n % d
    IN  IF 2 * r < d THEN q
        ELSE IF 2 * r > d THEN q + 1
        ELSE IF q % 2 = 0 THEN q ELSE q + 1

\* _calculate_new_level(current_level, operation_type, value)
CalculateNewLevel(current_level, operation_type, value) ==
    IF operation_type = "absolute"
    THEN IntOf(current_level * value.den + value.num, value.den)
    ELSE Max(1, Round(current_level * (100 * value.den + value.num), 100 * value.den))

Unconstrained(new_level, min_level, max_level) == new_level

ConstrainedAbove(new_level, min_level, max_level) == Min(max_level, new_level)

\* new_level = max(min_level, min(max_level, new_level))
Constrained(new_level, min_level, max_level) ==
    Max(min_level, Min(max_level, new_level))

\* the level a slot holding old_level gets
NewLevel(old_level, operation_type, value, min_level, max_level) ==
    Constrained(CalculateNewLevel(old_level, operation_type, value), min_level, max_level)

OccupiedBySpecies(entry, i) == entry.MonsNo[i] > 0

\* entry.get(mons_no_key, 0) > 0 and entry.get(level_key, 0) > 0
Occupied(entry, i) == entry.MonsNo[i] > 0 /\ entry.Level[i] > 0

\* selected_trainers is not None and trainer_id not in selected_trainers
Skipped(entry, selected_trainers) ==
    selected_trainers.kind # "None" /\ entry.ID \notin selected_trainers.ids

\* the levels of a record after the loop over its slots
NewLevels(entry, operation_type, value, min_level, max_level) ==
    [i \in Slots |->
        IF Occupied(entry, i)
        THEN NewLevel(entry.Level[i], operation_type, value, min_level, max_level)
        ELSE entry.Level[i]]

\* a record after apply_level_modification
ModifiedEntry(entry, operation_type, value, min_level, max_level, selected_trainers) ==
    IF Skipped(entry, selected_trainers) THEN entry
    ELSE [entry EXCEPT !.Level = NewLevels(entry, operation_type, value,
                                           min_level, max_level)]

PokemonChangesLogged(entry, operation_type, value, min_level, max_level) ==
    SelectSeq([i \in Slots |->
                  [pokemon_slot |-> i,
                   old_level |-> entry.Level[i],
                   new_level |-> NewLevels(entry, operation_type, value,
                                           min_level, max_level)[i],
                   mons_no |-> entry.MonsNo[i]]],
              LAMBDA c : Occupied(entry, c.pokemon_slot))

\* trainer_modifications: one log entry for each slot whose level changes
PokemonChanges(entry, operation_type, value, min_level, max_level) ==
    SelectSeq([i \in Slots |->
                  [pokemon_slot |-> i,
                   old_level |-> entry.Level[i],
                   new_level |-> NewLevels(entry, operation_type, value,
                                           min_level, max_level)[i],
                   mons_no |-> entry.MonsNo[i]]],
              LAMBDA c : c.new_level # c.old_level)

\* modifications: one entry for each record with a changed slot
Modifications(recs, operation_type, value, min_level, max_level, selected_trainers) ==
    SelectSeq([k \in 1..Len(recs) |->
                  [trainer_id |-> recs[k].ID,
                   pokemon_changes |->
                       IF Skipped(recs[k], selected_trainers) THEN <<>>
                       ELSE PokemonChanges(recs[k], operation_type, value,
                                           min_level, max_level)]],
              LAMBDA m : m.pokemon_changes # <<>>)

RECURSIVE TotalChanges(_, _)
TotalChanges(modifications, k) ==
    IF k > Len(modifications) THEN 0
    ELSE Len(modifications[k].pokemon_changes) + TotalChanges(modifications, k + 1)

\* modification_record, given the list modifications
ModificationRecord(modifications, operation_type, value, min_level, max_level, selected_trainers) ==
    [operation_type |-> operation_type,
     value |-> value,
     min_level |-> min_level,
     max_level |-> max_level,
     selected_trainers |-> selected_trainers,
     modifications |-> modifications,
     total_pokemon_modified |-> TotalChanges(modifications, 1),
     total_trainers_modified |-> Len(modifications)]

\* the collection after apply_level_modification has mutated it in place
ModifiedRecords(recs, operation_type, value, min_level, max_level, selected_trainers) ==
    [k \in 1..Len(recs) |->
        ModifiedEntry(recs[k], operation_type, value, min_level, max_level,
                      selected_trainers)]

\* the end of apply_level_modification: the record is appended and returned
Recorded(recs, hist, modification_record) ==
    [records |-> recs, history |-> Append(hist, modification_record),
     ret |-> modification_record]

\* apply_level_modification(trainer_poke_data, operation_type, value,
\*                          min_level, max_level, selected_trainers)
ApplyLevelModification(recs, hist, operation_type, value, min_level, max_level, selected_trainers) ==
    Recorded(ModifiedRecords(recs, operation_type, value, min_level, max_level,
                             selected_trainers),
             hist,
             ModificationRecord(
                 Modifications(recs, operation_type, value, min_level, max_level,
                               selected_trainers),
                 operation_type, value, min_level, max_level, selected_trainers))

\* pokemon_previews: one entry for each occupied slot
PokemonPreviews(entry, operation_type, value, min_level, max_level) ==
    SelectSeq([i \in Slots |->
                  [slot |-> i,
                   mons_no |-> entry.MonsNo[i],
                   old_level |-> entry.Level[i],
                   new_level |-> NewLevel(entry.Level[i], operation_type, value,
                                          min_level, max_level),
                   changed |-> NewLevel(entry.Level[i], operation_type, value,
                                        min_level, max_level) # entry.Level[i]]],
              LAMBDA p : Occupied(entry, p.slot))

\* if has_changes and preview_entry["pokemon_previews"]: append
PreviewAdded(preview_entries, trainer_id, pokemon_previews) ==
    IF \E k \in 1..Len(pokemon_previews) : pokemon_previews[k].changed
    THEN Append(preview_entries,
                [trainer_id |-> trainer_id, pokemon_previews |-> pokemon_previews])
    ELSE preview_entries

PreviewStopNever(preview_entries, max_preview_entries) == FALSE

\* if count >= max_preview_entries: break (count is len(preview_entries))
PreviewStop(preview_entries, max_preview_entries) ==
    Len(preview_entries) >= max_preview_entries

\* the loop of preview_modifications from record k on
RECURSIVE PreviewFrom(_, _, _, _, _, _, _, _, _)
PreviewFrom(recs, k, preview_entries, operation_type, value, min_level, max_level, selected_trainers, max_preview_entries) ==
    IF k > Len(recs) \/ PreviewStop(preview_entries, max_preview_entries)
    THEN preview_entries
    ELSE PreviewFrom(recs, k + 1,
             IF Skipped(recs[k], selected_trainers) THEN preview_entries
             ELSE PreviewAdded(preview_entries, recs[k].ID,
                               PokemonPreviews(recs[k], operation_type, value,
                                               min_level, max_level)),
             operation_type, value, min_level, max_level, selected_trainers,
             max_preview_entries)

PreviewInPlace(recs, operation_type, value, min_level, max_level, selected_trainers, max_preview_entries) ==
    [records |-> ModifiedRecords(recs, operation_type, value, min_level, max_level,
                                 selected_trainers),
     ret |-> PreviewFrom(recs, 1, <<>>, operation_type, value, min_level, max_level,
                         selected_trainers, max_preview_entries)]

\* preview_modifications(trainer_poke_data, operation_type, value, min_level,
\*                       max_level, selected_trainers, max_preview_entries):
\* the collection afterwards and the list returned
PreviewModifications(recs, operation_type, value, min_level, max_level, selected_trainers, max_preview_entries) ==
    [records |-> recs,
     ret |-> PreviewFrom(recs, 1, <<>>, operation_type, value, min_level, max_level,
                         selected_trainers, max_preview_entries)]

---------------------------------------------------------------------------
(* Transform texts.  A text is the sequence of its characters.             *)

Digits == {"0", "1", "2", "3", "4", "5", "6", "7", "8", "9"}

\* the characters str.strip() removes
Whitespace == {" "}

NoStrip(text) == text

\* input_text.strip()
RECURSIVE Strip(_)
Strip(text) ==
    IF text = <<>> THEN text
    ELSE IF text[1] \in Whitespace THEN Strip(Tail(text))
    ELSE IF text[Len(text)] \in Whitespace THEN Strip(SubSeq(text, 1, Len(text) - 1))
    ELSE text

\* \d+
AllDigits(t) == t # <<>> /\ \A k \in 1..Len(t) : t[k] \in Digits

\* [+-]?
Unsigned(t) == IF t # <<>> /\ t[1] \in {"+", "-"} THEN Tail(t) ELSE t

\* re.match(r"^([+-]?\d+(?:\.\d+)?)$", t)
NumberMatch(t) ==
    \/ AllDigits(Unsigned(t))
    \/ \E k \in 1..Len(Unsigned(t)) :
        /\ Unsigned(t)[k] = "."
        /\ AllDigits(SubSeq(Unsigned(t), 1, k - 1))
        /\ AllDigits(SubSeq(Unsigned(t), k + 1, Len(Unsigned(t))))

DigitValue(c) ==
    CHOOSE v \in 0..9 : <<"0", "1", "2", "3", "4", "5", "6", "7", "8", "9">>[v + 1] = c

\* the number the digits of t spell, after the digits read so far (acc);
\* a decimal point is passed over
RECURSIVE DigitsValue(_, _)
DigitsValue(t, acc) ==
    IF t = <<>> THEN acc
    ELSE IF t[1] = "." THEN DigitsValue(Tail(t), acc)
    ELSE DigitsValue(Tail(t), 10 * acc + DigitValue(t[1]))

\* ten to the number of digits after the decimal point
RECURSIVE Denominator(_)
Denominator(t) ==
    IF t = <<>> THEN 1
    ELSE IF t[1] = "." THEN Denominator(Tail(t))
    ELSE IF \E k \in 1..Len(t) : t[k] = "." THEN Denominator(Tail(t))
    ELSE 10 * Denominator(Tail(t))

\* equal floats are one value: 1.50 is 1.5
RECURSIVE Normal(_, _)
Normal(num, den) ==
    IF den > 1 /\ num % 10 = 0 THEN Normal(num \div 10, den \div 10)
    ELSE Dec(num, den)

\* float(t) for a text t that matches the number pattern
Float(t) ==
    Normal((IF t[1] = "-" THEN -1 ELSE 1) * DigitsValue(Unsigned(t), 0),
           IF \E k \in 1..Len(t) : t[k] = "." THEN Denominator(Unsigned(t)) ELSE 1)

NoValue == Dec(0, 0)

Parsed(operation_type, value) ==
    [res |-> "ok", operation_type |-> operation_type, value |-> value]

ValueError(message) ==
    [res |-> "ValueError", operation_type |-> message, value |-> NoValue]

\* parse_level_modification after the strip
ParseStripped(t) ==
    IF t = <<>> THEN ValueError("Empty input")
    ELSE IF t[Len(t)] = "%" /\ NumberMatch(SubSeq(t, 1, Len(t) - 1))
    THEN Parsed("percentage", Float(SubSeq(t, 1, Len(t) - 1)))
    ELSE IF NumberMatch(t) THEN Parsed("absolute", Float(t))
    ELSE ValueError("Invalid input format")

\* parse_level_modification(input_text)
ParseLevelModification(input_text) == ParseStripped(Strip(input_text))

\* apply_level_modification_from_string after the parse (p): the caller's
\* collection, the history and what is returned or raised
FromParsed(recs, hist, p, min_level, max_level, selected_trainers) ==
    IF p.res # "ok"
    THEN [records |-> recs, history |-> hist, ret |-> p]
    ELSE [records |-> recs,
          history |-> ApplyLevelModification(recs, hist, p.operation_type, p.value,
                          min_level, max_level, selected_trainers).history,
          ret |-> [res |-> "ok",
                   modified_data |->
                       ModifiedRecords(recs, p.operation_type, p.value, min_level,
                                       max_level, selected_trainers)]]

FromStringUnparsed(recs, hist, modification_string, min_level, max_level, selected_trainers) ==
    [records |-> recs,
     history |-> Append(hist, ParseLevelModification(modification_string)),
     ret |-> ParseLevelModification(modification_string)]

\* apply_level_modification_from_string(trainer_poke_data, modification_string,
\*                                      min_level, max_level, selected_trainers)
ApplyLevelModificationFromString(recs, hist, modification_string, min_level, max_level, selected_trainers) ==
    FromParsed(recs, hist, ParseLevelModification(modification_string),
               min_level, max_level, selected_trainers)

---------------------------------------------------------------------------
(* Apply Changes of the main window (gui/main_window.py 1544-1602), on the *)
(* collection the window holds.  trainer_ids is what the trainer id field  *)
(* reads as: empty, a list of ids, or text that int() refuses.             *)

InvalidIds == [kind |-> "invalid", ids |-> {}]

\* _validate_inputs, 1634-1656
ValidateInputs(level_modification, min_level, max_level) ==
    /\ Strip(level_modification) # <<>>
    /\ ~(min_level < 1 \/ max_level > 100 \/ min_level > max_level)

\* target_indices, 1556-1574
TargetIndices(recs, trainer_ids) ==
    SelectSeq([i \in 1..Len(recs) |-> i],
              LAMBDA i : trainer_ids.kind = "None" \/ recs[i].ID \in trainer_ids.ids)

Shown(recs, hist, res) == [records |-> recs, history |-> hist, ret |-> [res |-> res]]

\* the loop over target_indices from position k on, 1586-1602: the text is
\* parsed and the transform applied to the one record, without id filter
RECURSIVE ApplyEach(_, _, _, _, _, _, _)
RECURSIVE ApplyParsed(_, _, _, _, _, _, _, _)
ApplyParsed(recs, hist, target_indices, k, p, level_modification, min_level, max_level) ==
    IF p.res # "ok" THEN [records |-> recs, history |-> hist, ret |-> p]
    ELSE ApplyEach(
             [recs EXCEPT ![target_indices[k]] =
                 ModifiedEntry(@, p.operation_type, p.value, min_level, max_level, NoFilter)],
             ApplyLevelModification(<<recs[target_indices[k]]>>, hist, p.operation_type,
                                    p.value, min_level, max_level, NoFilter).history,
             target_indices, k + 1, level_modification, min_level, max_level)

ApplyEach(recs, hist, target_indices, k, level_modification, min_level, max_level) ==
    IF k > Len(target_indices) THEN Shown(recs, hist, "ok")
    ELSE ApplyParsed(recs, hist, target_indices, k,
                     ParseLevelModification(level_modification),
                     level_modification, min_level, max_level)

\* _apply_changes
ApplyChanges(recs, hist, level_modification, min_level, max_level, trainer_ids) ==
    IF ~ValidateInputs(level_modification, min_level, max_level) \/ recs = <<>>
    THEN Shown(recs, hist, "return")
    ELSE IF trainer_ids.kind = "invalid" THEN Shown(recs, hist, "Invalid Input")
    ELSE IF TargetIndices(recs, trainer_ids) = <<>>
    THEN Shown(recs, hist, "No trainer data found")
    ELSE ApplyEach(recs, hist, TargetIndices(recs, trainer_ids), 1,
                   Strip(level_modification), min_level, max_level)

---------------------------------------------------------------------------
(* The main window's trainer editor (gui/main_window.py).  records is the  *)
(* list trainer_poke_data; window holds original_trainer_poke_data and the *)
(* list under "TrainerPoke" in the unpacker's trainer_data.  shared: that  *)
(* list is the very list object (with the very dicts) trainer_poke_data    *)
(* is, so that a change made in place shows in both.                       *)

\* _on_trainer_data_loaded (1089-1110), poke being what
\* extract_trainer_poke_data() returns: the unpacker's own list; the original
\* is a deep copy of it
OnTrainerDataLoaded(poke) ==
    [records |-> poke,
     window |-> [loaded |-> TRUE, original |-> poke, unpacker_poke |-> poke,
                 shared |-> TRUE]]

\* the unpacker's list as a change of trainer_poke_data made in place leaves it
InPlace(win, recs) == IF win.shared THEN [win EXCEPT !.unpacker_poke = recs] ELSE win

\* selected_data of _preview_changes (1497-1519); the id field is not invalid
SelectedData(recs, trainer_ids) ==
    SelectSeq(recs, LAMBDA entry : trainer_ids.kind = "None" \/ entry.ID \in trainer_ids.ids)

\* _preview_changes (1484-1542): the transform is applied to a deep copy of
\* the selected records by the window's level editor
PreviewChanges(recs, hist, level_modification, min_level, max_level, trainer_ids) ==
    IF ~ValidateInputs(level_modification, min_level, max_level) \/ recs = <<>>
    THEN Shown(recs, hist, "return")
    ELSE IF trainer_ids.kind = "invalid" THEN Shown(recs, hist, "Invalid Input")
    ELSE IF SelectedData(recs, trainer_ids) = <<>>
    THEN Shown(recs, hist, "No trainer data found")
    ELSE [records |-> recs,
          history |-> ApplyLevelModificationFromString(
                          SelectedData(recs, trainer_ids), hist,
                          Strip(level_modification), min_level, max_level,
                          NoFilter).history,
          ret |-> ApplyLevelModificationFromString(
                      SelectedData(recs, trainer_ids), hist,
                      Strip(level_modification), min_level, max_level, NoFilter).ret]

UpdateSkipped(win, modified_data) == [win EXCEPT !.shared = FALSE]

\* FileUnpacker.update_trainer_poke_data(modified_data), unpacker_old.py
\* 168-181, with trainer_data loaded: the list is stored, not copied
UpdateTrainerPokeData(win, modified_data) ==
    [win EXCEPT !.unpacker_poke = modified_data, !.shared = TRUE]

\* _reset_data (1618-1632); confirm: the answer to the question asked
ResetData(recs, win, confirm) ==
    IF win.original = <<>> THEN [records |-> recs, window |-> win, res |-> "return"]
    ELSE IF ~confirm THEN [records |-> recs, window |-> win, res |-> "no"]
    ELSE [records |-> win.original,
          window |-> UpdateTrainerPokeData(win, win.original),
          res |-> "reset"]

---------------------------------------------------------------------------
(* The calls on the level editor *)

\* the handlers, the unpacker and the files: no call below touches them
containerVars == <<disk, tmp, made, writes, h, u, last>>

NoRet == [op |-> "init"]

\* a main window that has loaded no trainer table
NoWindow == [loaded |-> FALSE, original |-> <<>>, unpacker_poke |-> <<>>, shared |-> FALSE]

\* no load in a background thread: no handler created, nothing shown
NoLoads ==
    [obj |-> [t \in 1..MaxThreads |-> NoHandler],
     ref |-> 0,
     thread |-> [t \in 1..MaxThreads |->
                    [pc |-> "idle", path |-> None, type |-> None, data |-> NoData,
                     self |-> 0]],
     shown |-> [path |-> None, data |-> NoData]]

\* a call that ended: its name, the arguments kept for the properties, and
\* what it returned or raised
Returned(op, args, out) == [op |-> op, args |-> args, out |-> out]

\* the transforms drawn: +10, -1.5, 25 %, -50 %
Mods ==
    {Parsed("absolute", Dec(10, 1)), Parsed("absolute", Dec(-15, 10)),
     Parsed("percentage", Dec(25, 1)), Parsed("percentage", Dec(-50, 1))}

\* the bounds drawn: the defaults, a narrow range, a minimum of 0, min > max
BoundsDrawn == {<<1, 100>>, <<3, 4>>, <<0, 100>>, <<4, 3>>}

\* the id filters drawn: absent, empty, one id
Filters == {NoFilter, IdList({}), IdList({1})}

\* the transform texts drawn: two transforms, one of them with blanks around
\* it, and three texts that are no transform
ModTexts ==
    {<<"+", "1", "0">>, <<" ", "2", "5", "%", " ">>, <<>>, <<"a", "b", "c">>, <<"%">>}

\* the texts of the level field drawn: a transform, no transform, nothing
FieldTexts == {<<"+", "1", "0">>, <<"a", "b", "c">>, <<>>}

\* the trainer id field: empty, one id, no number
IdFields == {NoFilter, IdList({1}), InvalidIds}

\* the characters of the texts parsed
Alphabet == {"+", "-", "0", "1", "2", "5", ".", "%", " ", "a", "b", "c"}

\* no call on the level editor yet, and no collection
InitNoLevels ==
    /\ records = <<>>
    /\ history = <<>>
    /\ ret = NoRet
    /\ window = NoWindow
    /\ loads = NoLoads
    /\ clears = 0

\* apply_level_modification on the collection
apply_level_modification ==
    /\ Len(history) < MaxHistory
    /\ \E m \in Mods : \E b \in BoundsDrawn : \E sel \in Filters :
       \E r \in {ApplyLevelModification(records, history, m.operation_type, m.value,
                                        b[1], b[2], sel)} :
            /\ records' = r.records
            /\ history' = r.history
            /\ ret' = Returned("apply_level_modification", <<>>, r.ret)
    /\ UNCHANGED <<containerVars, window, loads, clears>>

\* the numbers of entries a preview is cut to
PreviewSizes == {0, 1, 50}

\* preview_modifications on the collection
preview_modifications ==
    /\ \E m \in Mods : \E b \in BoundsDrawn : \E sel \in Filters : \E n \in PreviewSizes :
       \E r \in {PreviewModifications(records, m.operation_type, m.value,
                                      b[1], b[2], sel, n)} :
            /\ records' = r.records
            /\ ret' = Returned("preview_modifications", <<m, b, sel, n>>, r.ret)
    /\ UNCHANGED <<containerVars, history, window, loads, clears>>

\* a text entered and not parsed yet
Entered(text) == [op |-> "entered", args |-> text]

\* parse_level_modification(text) of the text entered
parse_level_modification ==
    /\ ret.op = "entered"
    /\ ret' = Returned("parse_level_modification", ret.args,
                       ParseLevelModification(ret.args))
    /\ UNCHANGED <<containerVars, records, history, window, loads, clears>>

\* apply_level_modification_from_string on the collection
apply_level_modification_from_string ==
    /\ \E text \in ModTexts : \E b \in {<<1, 100>>} :
       \E sel \in {NoFilter, IdList({1})} :
       \E r \in {ApplyLevelModificationFromString(records, history, text,
                                                  b[1], b[2], sel)} :
            /\ Len(r.history) <= MaxHistory
            /\ records' = r.records
            /\ history' = r.history
            /\ ret' = Returned("apply_level_modification_from_string", text, r.ret)
    /\ UNCHANGED <<containerVars, window, loads, clears>>

\* Apply Changes in the main window
apply_changes ==
    /\ \E text \in FieldTexts : \E b \in {<<1, 100>>, <<4, 3>>} :
       \E ids \in IdFields :
       \E r \in {ApplyChanges(records, history, text, b[1], b[2], ids)} :
            /\ Len(r.history) <= MaxHistory
            /\ records' = r.records
            /\ history' = r.history
            /\ window' = InPlace(window, r.records)
            /\ ret' = Returned("apply_changes", text, r.ret)
    /\ UNCHANGED <<containerVars, loads, clears>>

---------------------------------------------------------------------------
(* Containers of the initial states *)

NamedTree(name, key) == Tree(TRUE, name, NullPathID, key, 0)

\* a masterdatas container: two objects named TrainerTable and a script
TrainerBundle ==
    << Obj(1, "MonoBehaviour", NamedTree(<<"TrainerTable">>, "TrainerPoke")),
       Obj(2, "MonoBehaviour", NamedTree(<<"TrainerTable">>, "none")),
       ScriptObj >>

\* a personal_masterdatas container: the species table and an unnamed object
PersonalBundle ==
    << Obj(1, "MonoBehaviour", NamedTree(<<"PersonalTable">>, "Personal")),
       Obj(2, "MonoBehaviour", Tree(TRUE, <<>>, ScriptPid, "none", 0)),
       ScriptObj >>

\* a container whose second object has neither "m_Name" nor "m_Script"
BrokenBundle ==
    << Obj(1, "MonoBehaviour", NamedTree(<<"x">>, "TrainerPoke")),
       Obj(2, "MonoBehaviour", Tree(FALSE, <<>>, NoScriptKey, "none", 0)) >>

InitDisk(a, b) ==
    [p \in AllPaths |-> IF p = SrcA THEN a ELSE IF p = SrcB THEN b ELSE NoFile]

InitRest ==
    /\ tmp = [d \in TmpNames |-> NoDir]
    /\ made = 0
    /\ writes = 0
    /\ u = NewUnpacker
    /\ last = Called("init", None, "ok")
    /\ InitNoLevels

\* a handler of either class, and two containers to extract
Init ==
    /\ disk = InitDisk(Bundle("source", TrainerBundle), Bundle("source", BrokenBundle))
    /\ h \in {NewHandler(k) : k \in Kinds}
    /\ InitRest

\* a FileUnpacker, and two containers to load
InitUnpacker ==
    /\ disk \in {InitDisk(Bundle("source", TrainerBundle), Bundle("source", b)) :
                    b \in {PersonalBundle, BrokenBundle}}
    /\ h = NewHandler("masterdatas")
    /\ InitRest

\* the handlers used directly
Next ==
    \/ unpack_masterdata
    \/ save_data
    \/ repack_masterdata
    \/ cleanup
    \/ EditExtractedFile
    \/ RemoveExtractedFile

Spec == Init /\ [][Next]_vars

\* the FileUnpacker
NextUnpacker ==
    \/ load_trainer_file
    \/ update_trainer_poke_data
    \/ create_backup
    \/ save_trainer_file
    \/ unpacker_cleanup

SpecUnpacker == InitUnpacker /\ [][NextUnpacker]_vars

---------------------------------------------------------------------------
(* Generated containers: up to MaxObjs objects of interest, each with one  *)
(* of the shapes below, in either order of their path ids, and the script. *)

\* a declared name, a case variant, a name in a directory, an empty name
\* without and with a script that resolves, and names of the form
\* {name}_{type_name}_{path_id} for the first and the last path id
Shapes ==
    {Tree(TRUE, n, NullPathID, "none", 0) :
        n \in {<<"x">>, <<"X">>, <<"d", "/", "x">>, <<>>,
               Disambiguated(<<"x">>, "MonoBehaviour", 1),
               Disambiguated(<<"x">>, "MonoBehaviour", MaxObjs)}}
    \cup {Tree(TRUE, <<>>, ScriptPid, "none", 0)}

\* the containers of n objects of interest
Generated(n) ==
    {[i \in 1..(n + 1) |->
        IF i = n + 1 THEN ScriptObj
        ELSE Obj(IF up THEN i ELSE n + 1 - i, "MonoBehaviour", shape[i])] :
     shape \in [1..n -> Shapes], up \in BOOLEAN}

\* one handler and one generated container; the temporary directories made
\* before are gone, one more can be made
InitNames ==
    /\ disk \in {InitDisk(Bundle("source", c), NoFile) :
                    c \in UNION {Generated(n) : n \in 0..MaxObjs}}
    /\ h = NewHandler("masterdatas")
    /\ tmp = [d \in TmpNames |-> NoDir]
    /\ made = MaxTmp - 1
    /\ writes = 0
    /\ u = NewUnpacker
    /\ last = Called("init", None, "ok")
    /\ InitNoLevels

\* extraction and rebuild with no edit in between
NextNames ==
    \/ unpack_masterdata
    \/ repack_masterdata
    \/ cleanup

SpecNames == InitNames /\ [][NextNames]_vars

---------------------------------------------------------------------------
(* Extraction, rebuild and cleanup, on a handler used directly or on a     *)
(* FileUnpacker: a run calls one of the two objects, the one its first     *)
(* call is made on.                                                        *)

HandlerCalls == {"init", "unpack_masterdata", "repack_masterdata", "cleanup"}

UnpackerCalls == {"init", "load_trainer_file", "save_trainer_file", "unpacker_cleanup"}

NextRebuild ==
    \/ last.op \in HandlerCalls /\ unpack_masterdata
    \/ last.op \in HandlerCalls /\ repack_masterdata
    \/ last.op \in HandlerCalls /\ cleanup
    \/ last.op \in UnpackerCalls /\ load_trainer_file
    \/ last.op \in UnpackerCalls /\ save_trainer_file
    \/ last.op \in UnpackerCalls /\ unpacker_cleanup

\* a handler of either class, a FileUnpacker, and two containers
InitRebuild ==
    /\ disk \in {InitDisk(Bundle("source", TrainerBundle), Bundle("source", b)) :
                    b \in {PersonalBundle, BrokenBundle}}
    /\ h \in {NewHandler(k) : k \in Kinds}
    /\ InitRest

SpecRebuild == InitRebuild /\ [][NextRebuild]_vars

---------------------------------------------------------------------------
(* The level editor on a collection of up to MaxRecs records.              *)

\* the slots of a record: two occupied ones, one with a level and no
\* species, one with a species and no level; one occupied slot near the
\* default maximum; no slot at all
SlotsDrawn ==
    {[MonsNo |-> <<1, 1, 0, 1, 0, 0>>, Level |-> <<2, 5, 3, 0, 0, 0>>],
     [MonsNo |-> <<2, 0, 0, 0, 0, 0>>, Level |-> <<95, 0, 0, 0, 0, 0>>],
     [MonsNo |-> <<0, 0, 0, 0, 0, 0>>, Level |-> <<0, 0, 0, 0, 0, 0>>]}

\* the records drawn: ids 1 and 2 with the first slots, id 2 with the
\* second, id 1 with the third
Entries ==
    {Entry(id, s.MonsNo, s.Level) : id \in {1, 2}, s \in SlotsDrawn}
        \ {Entry(1, <<2, 0, 0, 0, 0, 0>>, <<95, 0, 0, 0, 0, 0>>),
            Entry(2, <<0, 0, 0, 0, 0, 0>>, <<0, 0, 0, 0, 0, 0>>)}

Collections == UNION {[1..n -> Entries] : n \in 0..MaxRecs}

\* a new LevelEditor (13-14) and a collection; no container is involved
InitLevels ==
    /\ disk = InitDisk(NoFile, NoFile)
    /\ h = NewHandler("masterdatas")
    /\ tmp = [d \in TmpNames |-> NoDir]
    /\ made = 0
    /\ writes = 0
    /\ u = NewUnpacker
    /\ last = Called("init", None, "ok")
    /\ records \in Collections
    /\ history = <<>>
    /\ ret = NoRet
    /\ window = NoWindow
    /\ loads = NoLoads
    /\ clears = 0

\* transforms of the collection
NextLevels ==
    \/ apply_level_modification

SpecLevels == InitLevels /\ [][NextLevels]_vars

\* transforms given as text: to the editor, and in the main window
NextStrings ==
    \/ apply_level_modification_from_string
    \/ apply_changes

SpecStrings == InitLevels /\ [][NextStrings]_vars

\* previews of a collection
NextPreview ==
    \/ preview_modifications

SpecPreview == InitLevels /\ [][NextPreview]_vars

\* a new LevelEditor, no collection, and a text of up to MaxLen characters
InitParse ==
    /\ disk = InitDisk(NoFile, NoFile)
    /\ h = NewHandler("masterdatas")
    /\ tmp = [d \in TmpNames |-> NoDir]
    /\ made = 0
    /\ writes = 0
    /\ u = NewUnpacker
    /\ last = Called("init", None, "ok")
    /\ records = <<>>
    /\ history = <<>>
    /\ ret \in {Entered(text) : text \in UNION {[1..n -> Alphabet] : n \in 0..MaxLen}}
    /\ window = NoWindow
    /\ loads = NoLoads
    /\ clears = 0

\* texts parsed
NextParse ==
    \/ parse_level_modification

SpecParse == InitParse /\ [][NextParse]_vars

---------------------------------------------------------------------------
(* The trainer editor of the main window, and the history of its editor.   *)

\* the trainer table arrives in the main window: any collection
on_trainer_data_loaded ==
    /\ ~window.loaded
    /\ \E poke \in Collections : \E r \in {OnTrainerDataLoaded(poke)} :
        /\ records' = r.records
        /\ window' = r.window
        /\ ret' = Returned("on_trainer_data_loaded", <<>>, [res |-> "ok"])
    /\ UNCHANGED <<containerVars, history, loads, clears>>

\* Preview Changes in the main window
preview_changes ==
    /\ \E text \in FieldTexts : \E b \in {<<1, 100>>, <<4, 3>>} :
       \E ids \in IdFields :
       \E r \in {PreviewChanges(records, history, text, b[1], b[2], ids)} :
            /\ Len(r.history) <= MaxHistory
            /\ records' = r.records
            /\ history' = r.history
            /\ ret' = Returned("preview_changes", text, r.ret)
    /\ UNCHANGED <<containerVars, window, loads, clears>>

\* Reset Data in the main window; the collection before it is kept in ret
reset_data ==
    /\ \E confirm \in BOOLEAN : \E r \in {ResetData(records, window, confirm)} :
        /\ records' = r.records
        /\ window' = r.window
        /\ ret' = Returned("reset_data", records, [res |-> r.res])
    /\ UNCHANGED <<containerVars, history, loads, clears>>

\* clear_history(), level_editor.py 282-284
clear_history ==
    /\ clears < MaxClears
    /\ clears' = clears + 1
    /\ history' = <<>>
    /\ ret' = Returned("clear_history", <<>>, [res |-> "ok"])
    /\ UNCHANGED <<containerVars, records, window, loads>>

\* a main window with no trainer table yet
InitWindow ==
    /\ disk = InitDisk(NoFile, NoFile)
    /\ h = NewHandler("masterdatas")
    /\ InitRest

\* the trainer table arrives, then Apply Changes, Preview Changes, Reset Data
NextWindow ==
    \/ on_trainer_data_loaded
    \/ apply_changes
    \/ preview_changes
    \/ reset_data

SpecWindow == InitWindow /\ [][NextWindow]_vars

\* transforms, previews and clear_history on one editor
NextHistory ==
    \/ apply_level_modification_from_string
    \/ preview_modifications
    \/ apply_changes
    \/ preview_changes
    \/ clear_history

\* a new LevelEditor and a collection of one trainer with one Pokemon
InitHistory ==
    /\ disk = InitDisk(NoFile, NoFile)
    /\ h = NewHandler("masterdatas")
    /\ tmp = [d \in TmpNames |-> NoDir]
    /\ made = 0
    /\ writes = 0
    /\ u = NewUnpacker
    /\ last = Called("init", None, "ok")
    /\ \E level \in {5, 50} :
          records = <<Entry(1, <<7, 0, 0, 0, 0, 0>>, <<level, 0, 0, 0, 0, 0>>)>>
    /\ history = <<>>
    /\ ret = NoRet
    /\ window = NoWindow
    /\ loads = NoLoads
    /\ clears = 0

SpecHistory == InitHistory /\ [][NextHistory]_vars

---------------------------------------------------------------------------
(* Statistics of a collection: get_modification_statistics, 234-280.       *)

\* the occupied slots of a record
OccupiedSlots(entry) == {i \in Slots : Occupied(entry, i)}

\* total_pokemon after the records from k on
RECURSIVE TotalPokemon(_, _)
TotalPokemon(recs, k) ==
    IF k > Len(recs) THEN 0
    ELSE Cardinality(OccupiedSlots(recs[k])) + TotalPokemon(recs, k + 1)

\* trainers_with_pokemon
TrainersWithPokemon(recs) ==
    Cardinality({k \in 1..Len(recs) : OccupiedSlots(recs[k]) # {}})

\* the key f"{(level//10)*10}-{(level//10)*10+9}" of a level
LevelRange(level) == <<(level \div 10) * 10, (level \div 10) * 10 + 9>>

\* the positions (record, slot) of the occupied slots
OccupiedPositions(recs) ==
    {p \in (1..Len(recs)) \X Slots : Occupied(recs[p[1]], p[2])}

\* level_distribution: the number of occupied slots in each range that has one
LevelDistribution(recs) ==
    [r \in {LevelRange(recs[p[1]].Level[p[2]]) : p \in OccupiedPositions(recs)} |->
        Cardinality({p \in OccupiedPositions(recs) :
                        LevelRange(recs[p[1]].Level[p[2]]) = r})]

RECURSIVE Gcd(_, _)
Gcd(a, b) == IF b = 0 THEN a ELSE Gcd(b, a % b)

\* a / b of two non-negative integers: the quotient as a fraction in lowest
\* terms, or the ZeroDivisionError raised
TrueDiv(a, b) ==
    IF b = 0 THEN [res |-> "ZeroDivisionError", num |-> 0, den |-> 0]
    ELSE [res |-> "ok", num |-> a \div Gcd(a, b), den |-> b \div Gcd(a, b)]

AsCounted(trainers_with_pokemon) == trainers_with_pokemon

\* max(trainers_with_pokemon, 1)
AtLeastOne(trainers_with_pokemon) == Max(trainers_with_pokemon, 1)

\* get_modification_statistics(trainer_poke_data): the dict returned, or the
\* exception of the division
GetModificationStatistics(recs) ==
    [total_trainers |-> Len(recs),
     trainers_with_pokemon |-> TrainersWithPokemon(recs),
     total_pokemon |-> TotalPokemon(recs, 1),
     level_distribution |-> LevelDistribution(recs),
     average_pokemon_per_trainer |->
        TrueDiv(TotalPokemon(recs, 1), AtLeastOne(TrainersWithPokemon(recs)))]

\* get_modification_statistics on the collection
get_modification_statistics ==
    /\ ret' = Returned("get_modification_statistics", <<>>,
                       GetModificationStatistics(records))
    /\ UNCHANGED <<containerVars, records, history, window, loads, clears>>

\* transforms and statistics of a collection
NextStatistics ==
    \/ apply_level_modification
    \/ get_modification_statistics

SpecStatistics == InitLevels /\ [][NextStatistics]_vars

---------------------------------------------------------------------------
(* What h holds after an extraction: the objects of its source container,  *)
(* the Identifier Map of the sidecar, the extracted files.                 *)

Loaded ==
    /\ h.current_file_path # None
    /\ h.temp_dir # None
    /\ DirExists(tmp, h.temp_dir)
    /\ h.path_ids_file # NoPath
    /\ h.path_ids_file.file \in DOMAIN tmp[h.temp_dir].pathIDs

SourceObjects == UnityObjects(disk[h.current_file_path])

IdentifierMap == tmp[h.temp_dir].pathIDs[h.path_ids_file.file]

ExtractedFiles == tmp[h.temp_dir].Export

\* the positions of the objects of interest in scan order
Interest == {i \in 1..Len(SourceObjects) : SourceObjects[i].type \in export_types}

\* the nominal name of the object at position i, and the name the map gives it
Nominal(i) == Basename(NominalName(SourceObjects, SourceObjects[i]).name)

Assigned(i) == IdentifierMap[PidStr(SourceObjects[i].path_id)]

OwnDisambiguated(i) ==
    Disambiguated(Nominal(i), SourceObjects[i].type, SourceObjects[i].path_id)

\* the objects of interest with the nominal name of object i
SameNominal(i) == {j \in Interest : Nominal(j) = Nominal(i)}

First(S) == CHOOSE i \in S : \A j \in S : i <= j

\* an object scanned before object i got a file name equal, ignoring case,
\* to the nominal file name of object i
EarlierClash(i) ==
    \E j \in Interest :
        j < i /\ Upper(JsonFile(Assigned(j))) = Upper(JsonFile(Nominal(i)))

RebuiltOk == last.op = "repack_masterdata" /\ last.res = "ok"

---------------------------------------------------------------------------
(* Properties *)

\* C1: extracting a container and rebuilding it with no edit gives a
\* container in which the object of every path id has the content it has in
\* the source, whatever the names of the objects are.
C1_RoundTrip ==
    RebuiltOk =>
        LET dst == disk[last.path].objects IN
        /\ Len(dst) = Len(SourceObjects)
        /\ \A i \in 1..Len(dst) : \A j \in 1..Len(SourceObjects) :
                dst[i].path_id = SourceObjects[j].path_id => dst[i] = SourceObjects[j]

\* C2: a successful rebuild replaces the content of an object of interest
\* exactly when the extracted file named after the name the map gives its
\* path id exists, the new content being the tree in that file; every other
\* object keeps its content, and every object keeps its path id.
C2_ReplacedIffFileExists ==
    RebuiltOk =>
        LET dst == disk[last.path].objects IN
        /\ Len(dst) = Len(SourceObjects)
        /\ \A i \in 1..Len(SourceObjects) :
            /\ dst[i].path_id = SourceObjects[i].path_id
            /\ IF /\ i \in Interest
                  /\ PidStr(SourceObjects[i].path_id) \in DOMAIN IdentifierMap
                  /\ JsonFile(Assigned(i)) \in DOMAIN ExtractedFiles
               THEN dst[i].tree = Load(ExtractedFiles[JsonFile(Assigned(i))])
               ELSE dst[i] = SourceObjects[i]

\* a rebuild that replaced one object with an edited tree and kept another
\* whose extracted file is gone
C2_OneReplacedOneKept ==
    /\ RebuiltOk
    /\ \E i, j \in Interest :
        /\ JsonFile(Assigned(i)) \in DOMAIN ExtractedFiles
        /\ disk[last.path].objects[i].tree # SourceObjects[i].tree
        /\ JsonFile(Assigned(j)) \notin DOMAIN ExtractedFiles
        /\ disk[last.path].objects[j] = SourceObjects[j]

\* C3: after an extraction the Identifier Map is injective: no two path ids
\* are mapped to the same name.
C3_MapInjective ==
    Loaded =>
        \A p, q \in DOMAIN IdentifierMap :
            p # q => IdentifierMap[p] # IdentifierMap[q]

\* C4 as stated: of two or more objects of interest with the same nominal
\* name, the first in scan order gets the nominal name and every other gets
\* the disambiguated name with its own path id.
C4_ExactlyOneNominal ==
    Loaded =>
        \A i \in Interest :
            Cardinality(SameNominal(i)) >= 2 =>
                Assigned(i) = IF i = First(SameNominal(i)) THEN Nominal(i)
                              ELSE OwnDisambiguated(i)

\* C4 amended: of two or more objects of interest with the same nominal
\* name, every one after the first gets the disambiguated name with its own
\* path id, and the first gets the nominal name unless an object scanned
\* before it got a file name equal to its own ignoring case, in which case it
\* gets the disambiguated name too.
C4_AtMostOneNominal ==
    Loaded =>
        \A i \in Interest :
            Cardinality(SameNominal(i)) >= 2 =>
                Assigned(i) = IF i = First(SameNominal(i)) /\ ~EarlierClash(i)
                              THEN Nominal(i)
                              ELSE OwnDisambiguated(i)

\* an extraction in which the first of several objects with one nominal
\* name is disambiguated
C4_FirstDisambiguated ==
    /\ Loaded
    /\ \E i \in Interest :
        /\ Cardinality(SameNominal(i)) >= 2
        /\ i = First(SameNominal(i))
        /\ EarlierClash(i)
        /\ Assigned(i) = OwnDisambiguated(i)

\* C5: when FileUnpacker.save_trainer_file has rebuilt the container, the
\* rebuilt container holds the tree the unpacker has in memory.
C5_RebuildHoldsMemory ==
    (last.op = "save_trainer_file" /\ last.res = "ok") =>
        \E i \in 1..Len(disk[last.path].objects) :
            disk[last.path].objects[i].tree = u.trainer_data.tree

C7_AllOrNothing ==
    [][(/\ last'.op = "repack_masterdata"
        /\ last'.res = "Failed to repack"
        /\ ~Exists(disk, last'.path))
       => ~Exists(disk', last'.path)]_vars

\* C8: a load that fails while another container is loaded leaves the
\* FileUnpacker as it was, with its temporary directory, so that the loaded
\* container can still be rebuilt.
C8_FailedLoadKeepsContext ==
    [][(/\ last'.op = "load_trainer_file"
        /\ last'.res # "ok"
        /\ u.handler # NoHandler
        /\ u.trainer_data # NoData)
       => /\ u' = u
          /\ DirExists(tmp', u.handler.temp_dir)
          /\ tmp'[u.handler.temp_dir] = tmp[u.handler.temp_dir]
          /\ RepackMasterdata(u'.handler, disk', tmp', Out, 0).res = "ok"]_vars

\* C9: at most one of the temporary directories made by one object exists.
C9_OneTempDir ==
    \A by \in {"h", "u"} :
        Cardinality({d \in TmpNames : DirExists(tmp, d) /\ tmp[d].by = by}) <= 1

\* C10: an extraction that fails after its temporary directory was made
\* ends in the one wrapped error, with the directory deleted and temp_dir,
\* current_file_path and path_ids_file of the handler reset to None.
C10_ExtractAtomic ==
    (last.op = "unpack_masterdata" /\ last.res \notin {"ok", "FileNotFoundError"}) =>
        /\ last.res = "Failed to unpack"
        /\ ~DirExists(tmp, TmpName(made))
        /\ h.temp_dir = None
        /\ h.current_file_path = None
        /\ h.path_ids_file = NoPath

\* an extraction that failed after it had made its temporary directory
C10_ExtractFailed ==
    /\ last.op = "unpack_masterdata"
    /\ last.res = "Failed to unpack"
    /\ made >= 1
    /\ ~DirExists(tmp, TmpName(made))

\* The FileUnpacker holds a handler with a container extracted.
UnpackerLoaded ==
    /\ u.handler # NoHandler
    /\ u.handler.current_file_path # None
    /\ u.handler.temp_dir # None
    /\ DirExists(tmp, u.handler.temp_dir)

\* C11: a repack_masterdata step taken while the handler holds no extracted
\* container, and a save_trainer_file step taken while the FileUnpacker holds
\* none, end with the no-file-loaded error and leave every file outside the
\* temporary directories as it was.
C11_NothingLoadedNothingWritten ==
    [][/\ (last'.op = "repack_masterdata" /\ ~Loaded)
            => (last'.res = "No file loaded" /\ disk' = disk)
       /\ (last'.op = "save_trainer_file" /\ ~UnpackerLoaded)
            => (last'.res = "RuntimeError" /\ disk' = disk)]_vars

\* C11 happens: the handler made a temporary directory (the FileUnpacker
\* made none), holds no container any more, and its rebuild was refused.
C11_RefusedAfterCleanup ==
    /\ last.op = "repack_masterdata"
    /\ last.res = "No file loaded"
    /\ ~Loaded
    /\ made > 0
    /\ u = NewUnpacker
    /\ h.kind = "personal_masterdatas"

---------------------------------------------------------------------------
(* The level editor: what the properties below speak of.                   *)

\* A step of apply_level_modification; its arguments are in the
\* Modification Record it returns.
ApplyStep ==
    /\ ret'.op = "apply_level_modification"
    /\ history' = Append(history, ret'.out)

\* a slot that holds a species and a level
HasPokemon(entry, i) == entry.MonsNo[i] > 0 /\ entry.Level[i] > 0

\* a record the id filter lets through: the filter is absent or lists its id
Targeted(entry, filter) == filter.kind = "None" \/ entry.ID \in filter.ids

\* x brought into [lo, hi]
Clamp(x, lo, hi) == IF x < lo THEN lo ELSE IF x > hi THEN hi ELSE x

\* C12 as stated: after apply_level_modification with bounds min <= max, the
\* level of every occupied slot of every record is within the bounds.
C12_EveryLevelInBounds ==
    [][(ApplyStep /\ ret'.out.min_level <= ret'.out.max_level)
        => \A k \in 1..Len(records') : \A i \in Slots :
            HasPokemon(records'[k], i)
                => /\ ret'.out.min_level <= records'[k].Level[i]
                   /\ records'[k].Level[i] <= ret'.out.max_level]_vars

\* C12 amended: after apply_level_modification with bounds min <= max, the
\* level of every occupied slot of every record the id filter lets through
\* is within the bounds.
C12_TargetedLevelInBounds ==
    [][(ApplyStep /\ ret'.out.min_level <= ret'.out.max_level)
        => \A k \in 1..Len(records') : \A i \in Slots :
            (HasPokemon(records'[k], i) /\ Targeted(records'[k], ret'.out.selected_trainers))
                => /\ ret'.out.min_level <= records'[k].Level[i]
                   /\ records'[k].Level[i] <= ret'.out.max_level]_vars

\* C12 happens: the call brought a level above the maximum down to it.
C12_LevelBroughtDown ==
    /\ ret.op = "apply_level_modification"
    /\ ret.out.min_level <= ret.out.max_level
    /\ \E m \in 1..Len(ret.out.modifications) :
       \E c \in 1..Len(ret.out.modifications[m].pokemon_changes) :
            /\ ret.out.modifications[m].pokemon_changes[c].old_level > ret.out.max_level
            /\ ret.out.modifications[m].pokemon_changes[c].new_level = ret.out.max_level

\* C13: apply_level_modification keeps the number and the order of the
\* records, every record the id filter excludes, the id, the species ids and
\* the forms of every record, and the level of every slot that is not
\* occupied.
C13_OnlyTargetedLevelsChange ==
    [][ApplyStep
        => /\ Len(records') = Len(records)
           /\ \A k \in 1..Len(records) :
                /\ ~Targeted(records[k], ret'.out.selected_trainers)
                        => records'[k] = records[k]
                /\ records'[k].ID = records[k].ID
                /\ records'[k].MonsNo = records[k].MonsNo
                /\ records'[k].FormNo = records[k].FormNo
                /\ \A i \in Slots :
                        ~HasPokemon(records[k], i)
                            => records'[k].Level[i] = records[k].Level[i]]_vars

\* C13 happens: a call with an id filter changed a level, and the collection
\* holds a record with an occupied slot that the filter excludes and a slot
\* with a species and no level.
C13_FilteredCallChangedLevel ==
    /\ ret.op = "apply_level_modification"
    /\ ret.out.selected_trainers.kind = "list"
    /\ ret.out.total_pokemon_modified > 0
    /\ \E k \in 1..Len(records) : \E i \in Slots :
            ~Targeted(records[k], ret.out.selected_trainers) /\ HasPokemon(records[k], i)
    /\ \E k \in 1..Len(records) : \E i \in Slots :
            records[k].MonsNo[i] > 0 /\ records[k].Level[i] = 0

\* C14: apply_level_modification with an empty id filter leaves the
\* collection as the same call with no id filter leaves it.
C14_EmptyFilterIsNoFilter ==
    [][(ApplyStep /\ ret'.out.selected_trainers = IdList({}))
        => records' = ModifiedRecords(records, ret'.out.operation_type, ret'.out.value,
                                      ret'.out.min_level, ret'.out.max_level, NoFilter)]_vars

\* n / d (d > 0) rounded to the nearest integer, a tie away from zero
RoundHalfAway(n, d) ==
    IF n >= 0 THEN (2 * n + d) \div (2 * d) ELSE -((d - 2 * n) \div (2 * d))

\* C15: after a percentage transform with bounds min <= max, every occupied
\* slot of a record the id filter lets through holds
\* clamp(max(1, round(old * (1 + magnitude / 100))), min, max), where round
\* takes a tie away from zero.
C15_PercentageRoundsHalfAway ==
    [][(/\ ApplyStep
        /\ ret'.out.operation_type = "percentage"
        /\ ret'.out.min_level <= ret'.out.max_level)
        => \A k \in 1..Len(records) : \A i \in Slots :
            (HasPokemon(records[k], i) /\ Targeted(records[k], ret'.out.selected_trainers))
                => records'[k].Level[i] =
                    Clamp(Max(1, RoundHalfAway(
                                    records[k].Level[i]
                                        * (100 * ret'.out.value.den + ret'.out.value.num),
                                    100 * ret'.out.value.den)),
                          ret'.out.min_level, ret'.out.max_level)]_vars

\* C16 as stated: after an absolute transform with bounds min <= max, every
\* occupied slot of a record the id filter lets through holds old + magnitude
\* brought into [min, max] (both sides times the denominator of the magnitude).
C16_AbsoluteAddsMagnitude ==
    [][(/\ ApplyStep
        /\ ret'.out.operation_type = "absolute"
        /\ ret'.out.min_level <= ret'.out.max_level)
        => \A k \in 1..Len(records) : \A i \in Slots :
            (HasPokemon(records[k], i) /\ Targeted(records[k], ret'.out.selected_trainers))
                => records'[k].Level[i] * ret'.out.value.den =
                    Clamp(records[k].Level[i] * ret'.out.value.den + ret'.out.value.num,
                          ret'.out.min_level * ret'.out.value.den,
                          ret'.out.max_level * ret'.out.value.den)]_vars

\* n / d (d > 0) with its fraction cut off
TowardsZero(n, d) == IF n >= 0 THEN n \div d ELSE -((-n) \div d)

\* C16 amended: after an absolute transform with bounds min <= max, every
\* occupied slot of a record the id filter lets through holds old + magnitude
\* with its fraction cut off (towards zero), brought into [min, max].
C16_AbsoluteAddsAndTruncates ==
    [][(/\ ApplyStep
        /\ ret'.out.operation_type = "absolute"
        /\ ret'.out.min_level <= ret'.out.max_level)
        => \A k \in 1..Len(records) : \A i \in Slots :
            (HasPokemon(records[k], i) /\ Targeted(records[k], ret'.out.selected_trainers))
                => records'[k].Level[i] =
                    Clamp(TowardsZero(records[k].Level[i] * ret'.out.value.den
                                          + ret'.out.value.num,
                                      ret'.out.value.den),
                          ret'.out.min_level, ret'.out.max_level)]_vars

\* C16 happens: an absolute transform with a fractional magnitude changed a
\* level.
C16_FractionalMagnitudeApplied ==
    /\ ret.op = "apply_level_modification"
    /\ ret.out.operation_type = "absolute"
    /\ ret.out.value.den > 1
    /\ ret.out.min_level <= ret.out.max_level
    /\ ret.out.total_pokemon_modified > 0

\* C17: a step of preview_modifications leaves the collection as it was.
C17_PreviewKeepsCollection ==
    [][ret'.op = "preview_modifications" => records' = records]_vars

\* C17 happens: a preview that reports a change of level was made.
C17_PreviewReportedChange ==
    /\ ret.op = "preview_modifications"
    /\ \E j \in 1..Len(ret.out) : \E q \in 1..Len(ret.out[j].pokemon_previews) :
            /\ ret.out[j].pokemon_previews[q].changed
            /\ ret.out[j].pokemon_previews[q].new_level
                    # ret.out[j].pokemon_previews[q].old_level

\* the positions of the records that differ between two collections
ChangedPositions(before, after) ==
    SelectSeq([k \in 1..Len(before) |-> k], LAMBDA k : after[k] # before[k])

\* The preview (out) of the collection recs, cut to n entries, against what
\* apply_level_modification does to a copy of recs (applied): the previewed
\* records are the first n records the apply logs as changed, in order, and
\* each previews its occupied slots with the levels the apply writes.
TruncatedApply(recs, out, applied, n) ==
    /\ Len(out) = Min(Max(n, 0), Len(applied.ret.modifications))
    /\ \A j \in 1..Len(out) :
        /\ out[j].trainer_id = applied.ret.modifications[j].trainer_id
        /\ recs[ChangedPositions(recs, applied.records)[j]].ID = out[j].trainer_id
        /\ {out[j].pokemon_previews[q].slot : q \in 1..Len(out[j].pokemon_previews)}
                = {i \in Slots :
                      HasPokemon(recs[ChangedPositions(recs, applied.records)[j]], i)}
        /\ \A q \in 1..Len(out[j].pokemon_previews) :
                out[j].pokemon_previews[q].new_level
                    = applied.records[ChangedPositions(recs, applied.records)[j]]
                          .Level[out[j].pokemon_previews[q].slot]

\* C18: what preview_modifications returns is what apply_level_modification
\* with the same arguments does to a copy of the collection, cut to the first
\* max_preview_entries records it logs as changed.
C18_PreviewIsTruncatedApply ==
    ret.op = "preview_modifications"
        => TruncatedApply(records, ret.out,
               ApplyLevelModification(records, <<>>, ret.args[1].operation_type,
                                      ret.args[1].value, ret.args[2][1], ret.args[2][2],
                                      ret.args[3]),
               ret.args[4])

\* C18 happens: a preview cut to one entry of a collection in which the apply
\* changes more than one record.
C18_PreviewWasCut ==
    /\ ret.op = "preview_modifications"
    /\ ret.args[4] = 1
    /\ Len(ret.out) = 1
    /\ Len(ChangedPositions(records,
               ModifiedRecords(records, ret.args[1].operation_type, ret.args[1].value,
                               ret.args[2][1], ret.args[2][2], ret.args[3]))) > 1

\* a text of the form ^[+-]?\d+(\.\d+)?$: s characters of sign, a digits, and
\* nothing more or a point and at least one digit
IsNumberText(t) ==
    \E s \in 0..1 : \E a \in 1..Len(t) :
        /\ s = 1 => t[1] \in {"+", "-"}
        /\ s + a <= Len(t)
        /\ \A k \in (s + 1)..(s + a) : t[k] \in Digits
        /\ \/ s + a = Len(t)
           \/ /\ s + a + 2 <= Len(t)
              /\ t[s + a + 1] = "."
              /\ \A k \in (s + a + 2)..Len(t) : t[k] \in Digits

\* a text of that form followed by %
IsPercentText(t) ==
    /\ t # <<>>
    /\ t[Len(t)] = "%"
    /\ IsNumberText(SubSeq(t, 1, Len(t) - 1))

\* what parse_level_modification is to do with a text whose significant part
\* is t: absolute for a number, percentage for a number and %, an error else
ParsedAsPattern(out, t) ==
    /\ (out.res = "ok" /\ out.operation_type = "absolute") <=> IsNumberText(t)
    /\ (out.res = "ok" /\ out.operation_type = "percentage") <=> IsPercentText(t)
    /\ out.res = "ValueError" <=> (~IsNumberText(t) /\ ~IsPercentText(t))
    /\ t = <<"+", "1", "0">> => out.value = Dec(10, 1)
    /\ t = <<"-", "5">> => out.value = Dec(-5, 1)
    /\ t = <<"2", "0", "%">> => out.value = Dec(20, 1)
    /\ t \in {<<>>, <<"a", "b", "c">>, <<"%">>} => out.res = "ValueError"

\* C19 as stated: parse_level_modification returns absolute exactly for the
\* texts of the form ^[+-]?\d+(\.\d+)?$, percentage exactly for the texts of
\* that form followed by %, and fails for every other text.
C19_ParsesExactlyThePattern ==
    ret.op = "parse_level_modification" => ParsedAsPattern(ret.out, ret.args)

\* the text between the first and the last character of t that is no blank
Trimmed(t) ==
    IF \A k \in 1..Len(t) : t[k] = " " THEN <<>>
    ELSE SubSeq(t,
                CHOOSE a \in 1..Len(t) :
                    t[a] # " " /\ \A k \in 1..(a - 1) : t[k] = " ",
                CHOOSE b \in 1..Len(t) :
                    t[b] # " " /\ \A k \in (b + 1)..Len(t) : t[k] = " ")

\* C19 amended: parse_level_modification returns absolute exactly for the
\* texts that, with the blanks at their ends removed, have the form
\* ^[+-]?\d+(\.\d+)?$, percentage exactly for those that then have that form
\* followed by %, and fails for every other text.
C19_ParsesThePatternAfterTrim ==
    ret.op = "parse_level_modification" => ParsedAsPattern(ret.out, Trimmed(ret.args))

\* C19 happens: a text with a blank at an end was parsed as a transform.
C19_PaddedTextParsed ==
    /\ ret.op = "parse_level_modification"
    /\ ret.out.res = "ok"
    /\ ret.args # <<>>
    /\ ret.args[1] = " " \/ ret.args[Len(ret.args)] = " "

\* a text that is no transform: without the blanks at its ends it is neither
\* a number nor a number followed by %
Malformed(t) == ~IsNumberText(Trimmed(t)) /\ ~IsPercentText(Trimmed(t))

\* C20: a step of apply_level_modification_from_string or of Apply Changes
\* that was given a malformed transform text ends in an error and leaves
\* every record of the collection and the modification history as they were.
C20_MalformedTextChangesNothing ==
    [][(/\ ret'.op \in {"apply_level_modification_from_string", "apply_changes"}
        /\ Malformed(ret'.args))
        => /\ ret'.out.res # "ok"
           /\ records' = records
           /\ history' = history]_vars

\* C20 happens: after a transform was applied, Apply Changes was given a text
\* that passes the validation of the window and that the parser refuses.
C20_RefusedAfterTransform ==
    /\ ret.op = "apply_changes"
    /\ Malformed(ret.args)
    /\ ret.out.res = "ValueError"
    /\ history # <<>>
    /\ \E k \in 1..Len(records) : \E i \in Slots : HasPokemon(records[k], i)

\* C21: apply_level_modification with bounds min > max changes no level: the
\* collection after the call is the collection before it.
C21_InvalidBoundsChangeNothing ==
    [][(ApplyStep /\ ret'.out.min_level > ret'.out.max_level)
        => records' = records]_vars

---------------------------------------------------------------------------
(* The name of an object as the rebuild fallback derives it, stated on the *)
(* source container.                                                       *)

\* the declared name of the object at position i, "" without one
OwnName(i) ==
    IF SourceObjects[i].tree.has_name THEN SourceObjects[i].tree.m_Name ELSE <<>>

\* the positions of the objects the script reference of object i points to
ScriptsOf(i) ==
    {j \in 1..Len(SourceObjects) : SourceObjects[j].path_id = SourceObjects[i].tree.script}

\* own name, else the name of the script object, else unnamed_{path_id}
DerivedName(i) ==
    IF OwnName(i) # <<>> THEN Basename(OwnName(i))
    ELSE IF \E j \in ScriptsOf(i) : OwnName(j) # <<>>
    THEN Basename(OwnName(CHOOSE j \in ScriptsOf(i) : \A k \in ScriptsOf(i) : k <= j))
    ELSE Unnamed(SourceObjects[i].path_id)

\* C22: after an extraction the Identifier Map gives every object of interest
\* the name derived by the rule of the rebuild fallback (own name, else the
\* script's name, else unnamed_{path_id}), or that name disambiguated with
\* the object's type and path id.
C22_ExtractedUnderDerivedName ==
    Loaded =>
        \A i \in Interest :
            PidStr(SourceObjects[i].path_id) \in DOMAIN IdentifierMap =>
                Assigned(i) \in
                    {DerivedName(i),
                     Disambiguated(DerivedName(i), SourceObjects[i].type,
                                   SourceObjects[i].path_id)}

---------------------------------------------------------------------------
(* The locators on generated containers: one or two objects of interest,   *)
(* each with one of the names and one of the top-level keys below.         *)

\* a candidate name in two spellings, a name with the keyword "personal",
\* the keyword "pokemon", and a name no rule knows
LocateNames ==
    {<<"TrainerTable">>, <<"trainerpoke">>, <<"PersonalTable">>, <<"pokemon">>, <<"x">>}

\* the roster table, the species table, another table
LocateKeys == {"TrainerPoke", "Personal", "none"}

LocateContainers ==
    UNION {{[i \in 1..n |-> Obj(i, "MonoBehaviour", NamedTree(name[i], key[i]))] :
                name \in [1..n -> LocateNames], key \in [1..n -> LocateKeys]} :
           n \in 1..MaxLocated}

\* a handler of either class and one generated container; one temporary
\* directory can be made
InitLocate ==
    /\ disk \in {InitDisk(Bundle("source", c), NoFile) : c \in LocateContainers}
    /\ h \in {NewHandler(k) : k \in Kinds}
    /\ tmp = [d \in TmpNames |-> NoDir]
    /\ made = MaxTmp - 1
    /\ writes = 0
    /\ u = NewUnpacker
    /\ last = Called("init", None, "ok")
    /\ InitNoLevels

NextLocate ==
    \/ unpack_masterdata

SpecLocate == InitLocate /\ [][NextLocate]_vars

\* the last call extracted a container with the handler h
ExtractedOk == last.op = "unpack_masterdata" /\ last.res = "ok" /\ Loaded

\* the extracted .json files that parse to a table with the top-level key
HoldsKey(key) ==
    {f \in DOMAIN ExtractedFiles :
        /\ f[Len(f)] = ".json"
        /\ ExtractedFiles[f].kind = "json"
        /\ ExtractedFiles[f].json.key = key}

\* the extracted files named as a candidate of the roster family, and the
\* one whose candidate comes first in the list
CandidateFiles ==
    {f \in DOMAIN ExtractedFiles :
        \E i \in 1..Len(trainer_table_candidates) : trainer_table_candidates[i] = f}

FirstCandidate ==
    trainer_table_candidates[
        CHOOSE i \in 1..Len(trainer_table_candidates) :
            /\ trainer_table_candidates[i] \in CandidateFiles
            /\ \A j \in 1..(i - 1) : trainer_table_candidates[j] \notin CandidateFiles]

\* the extracted .json files whose lowercased name holds "personal" or "pokemon"
SpeciesKeywordFiles ==
    {f \in DOMAIN ExtractedFiles :
        /\ f[Len(f)] = ".json"
        /\ \E i \in 1..Len(f) :
            Keywords(LowerTok(f[i])) \cap {"personal", "pokemon"} # {}}

\* the file a handler has located, <<>> when it has located none
LocatedFile ==
    IF h.kind = "masterdatas" THEN h.trainer_table_path.file
    ELSE IF "PersonalTable" \in DOMAIN h.extracted_files
    THEN h.extracted_files["PersonalTable"].file
    ELSE <<>>

\* C23 as stated, for the rule both families are said to end with: after an
\* extraction, a handler of either family has located a file whenever an
\* extracted file holds its family's table under the top-level key.
C23_FoundWheneverSniffed ==
    ExtractedOk =>
        /\ (h.kind = "masterdatas" /\ HoldsKey("TrainerPoke") # {}) => LocatedFile # <<>>
        /\ (h.kind = "personal_masterdatas" /\ HoldsKey("Personal") # {})
                => LocatedFile # <<>>

\* C23 amended: after an extraction the roster handler has located the first
\* candidate file name that exists, else an extracted file holding the key
\* "TrainerPoke", else nothing (no keyword rule); the species handler has
\* located an extracted file whose lowercased name holds "personal" or
\* "pokemon", else nothing (no candidate list, no look at the content); an
\* extraction that locates nothing ends without an error.
C23_LocatedByFamilyRules ==
    ExtractedOk =>
        IF h.kind = "masterdatas"
        THEN IF CandidateFiles # {} THEN LocatedFile = FirstCandidate
             ELSE IF HoldsKey("TrainerPoke") # {} THEN LocatedFile \in HoldsKey("TrainerPoke")
             ELSE LocatedFile = <<>>
        ELSE IF SpeciesKeywordFiles # {} THEN LocatedFile \in SpeciesKeywordFiles
             ELSE LocatedFile = <<>>

\* C23 happens: the roster handler located a candidate file that does not
\* hold the roster key although another extracted file holds it.
C23_SniffedBehindCandidate ==
    /\ ExtractedOk
    /\ h.kind = "masterdatas"
    /\ LocatedFile \in CandidateFiles
    /\ LocatedFile \notin HoldsKey("TrainerPoke")
    /\ HoldsKey("TrainerPoke") # {}

\* C24: the statistics of a collection in which no record has an occupied
\* slot (the empty collection included) are returned with an average of
\* exactly 0, and the division raises nothing.
C24_NoPokemonAverageZero ==
    (/\ ret.op = "get_modification_statistics"
     /\ \A k \in 1..Len(records) : \A i \in Slots : ~HasPokemon(records[k], i))
        => /\ ret.out.average_pokemon_per_trainer.res = "ok"
           /\ ret.out.average_pokemon_per_trainer.num = 0
           /\ ret.out.total_pokemon = 0
           /\ ret.out.trainers_with_pokemon = 0

\* C24 happens: statistics were taken of a collection of records none of
\* which has an occupied slot.
C24_StatisticsOfEmptyTrainers ==
    /\ ret.op = "get_modification_statistics"
    /\ records # <<>>
    /\ \A k \in 1..Len(records) : \A i \in Slots : ~HasPokemon(records[k], i)
    /\ ret.out.total_trainers = Len(records)

\* C28: whenever the FileUnpacker has a file loaded and backup_created is
\* true, the backup copy of that file, current_file_path + ".backup", exists.
C28_BackupOfLoadedFileExists ==
    (u.current_file_path # None /\ u.backup_created)
        => Exists(disk, BackupPath(u.current_file_path))

\* the positions (record, slot) at which two collections of one length differ
\* in level
ChangedSlots(before, after) ==
    {p \in (1..Len(before)) \X Slots : after[p[1]].Level[p[2]] # before[p[1]].Level[p[2]]}

\* the per-slot log entries of a Modification Record: (entry of the record
\* log, entry of its slot log)
LogEntries(out) ==
    {p \in (1..Len(out.modifications)) \X Slots :
        p[2] <= Len(out.modifications[p[1]].pokemon_changes)}

\* C26: for the Modification Record apply_level_modification returns,
\* total_pokemon_modified is the number of per-slot log entries and the number
\* of slots whose level differs before and after the call, every log entry
\* has old_level # new_level, and total_trainers_modified is the number of
\* records with such a slot.
C26_CountsOnlyRealChanges ==
    [][ApplyStep
        => /\ ret'.out.total_pokemon_modified = Cardinality(LogEntries(ret'.out))
           /\ ret'.out.total_pokemon_modified =
                Cardinality(ChangedSlots(records, records'))
           /\ \A p \in LogEntries(ret'.out) :
                ret'.out.modifications[p[1]].pokemon_changes[p[2]].old_level
                    # ret'.out.modifications[p[1]].pokemon_changes[p[2]].new_level
           /\ ret'.out.total_trainers_modified =
                Cardinality({k \in 1..Len(records) :
                                \E i \in Slots : <<k, i>> \in ChangedSlots(records, records')})
           /\ ret'.out.total_trainers_modified = Len(ret'.out.modifications)]_vars

\* C26 happens: a call changed one slot of a record and left another occupied
\* slot of the same record at its level, and counted one.
C26_OneSlotOfTwoCounted ==
    /\ ret.op = "apply_level_modification"
    /\ ret.out.total_pokemon_modified = 1
    /\ ret.out.total_trainers_modified = 1
    /\ Len(records) = 1
    /\ Cardinality({i \in Slots : HasPokemon(records[1], i)}) >= 2

\* C30: apply_level_modification with bounds 1 <= min <= max leaves every
\* record with the occupied slots it had.
C30_OccupancyPreserved ==
    [][(/\ ApplyStep
        /\ 1 <= ret'.out.min_level
        /\ ret'.out.min_level <= ret'.out.max_level)
        => \A k \in 1..Len(records) : \A i \in Slots :
            HasPokemon(records'[k], i) <=> HasPokemon(records[k], i)]_vars

\* C30 happens: with a minimum of 1, a slot at level 2 was lowered by 1.5 and
\* holds level 1.
C30_LoweredToMinimum ==
    /\ ret.op = "apply_level_modification"
    /\ ret.out.min_level = 1
    /\ ret.out.operation_type = "absolute"
    /\ ret.out.value = Dec(-15, 10)
    /\ \E p \in LogEntries(ret.out) :
        /\ ret.out.modifications[p[1]].pokemon_changes[p[2]].old_level = 2
        /\ ret.out.modifications[p[1]].pokemon_changes[p[2]].new_level = 1

---------------------------------------------------------------------------
(* Reset Data of the main window *)

\* C29: the original collection of the main window stays the collection as
\* it was loaded whatever is applied or previewed afterwards, and a confirmed
\* Reset Data makes the window's collection and the unpacker's list equal to it
C29_ResetToLoaded ==
    [][/\ (window.loaded => window'.original = window.original)
       /\ (~window.loaded /\ window'.loaded => window'.original = records')
       /\ (ret'.op = "reset_data" /\ ret'.out.res = "reset"
             => /\ records' = window.original
                /\ window'.unpacker_poke = window.original)]_vars

\* a confirmed reset that took back levels changed by Apply Changes
C29_ResetAfterApply ==
    /\ ret.op = "reset_data"
    /\ ret.out.res = "reset"
    /\ ret.args # records
    /\ records = window.original
    /\ window.unpacker_poke = records

---------------------------------------------------------------------------
(* The history of the level editor *)

\* C27: the history grows by exactly one record with every transform applied
\* to the live collection, a preview (preview_modifications, Preview Changes
\* of the main window) appends nothing, and only clear_history removes records
C27_HistoryOfLiveTransforms ==
    [][/\ (ret'.op \in {"preview_modifications", "preview_changes"}
             => history' = history)
       /\ (ret'.op # "clear_history"
             => /\ Len(history') >= Len(history)
                /\ SubSeq(history', 1, Len(history)) = history)
       /\ (/\ ret'.op \in {"apply_level_modification_from_string", "apply_changes"}
           /\ ret'.out.res = "ok"
             => Len(history') = Len(history) + 1)
       /\ (ret'.op = "clear_history" => history' = <<>>)]_vars

---------------------------------------------------------------------------
(* Loads in background threads.  _load_trainer_table_editor (1057-1087)    *)
(* and _load_personal_table_editor (1112-1142) of gui/main_window.py each  *)
(* start a thread that runs load_trainer_file on the one FileUnpacker of   *)
(* the window; nothing keeps a second thread from starting while the first *)
(* runs.  loads.obj: the handler object each thread created; loads.ref:    *)
(* the thread whose handler self.handler refers to, 0 for None (u.handler  *)
(* is kept as the value of that object); loads.thread: where each thread   *)
(* is in load_trainer_file (unpacker_old.py 43-78) and what it holds;      *)
(* loads.shown: what the window shows.  A step is a stretch of the method  *)
(* between two uses of self.handler or of the handler's attributes.        *)

Threads == 1..MaxThreads

\* the attribute self.handler, given the objects and the reference
HandlerOf(L) == IF L.ref = 0 THEN NoHandler ELSE L.obj[L.ref]

WithLoads(ud, L) == [ud EXCEPT !.handler = HandlerOf(L)]

\* the selection in the content tree starts a load of the file of its type
\* (1042-1087, 1112-1142)
Started(file_path, file_type) ==
    [pc |-> "check", path |-> file_path, type |-> file_type, data |-> NoData,
     self |-> 0]

start_load(t) ==
    /\ loads.thread[t].pc = "idle"
    /\ \E p \in {SrcA, SrcB} :
        loads' = [loads EXCEPT !.thread[t] = Started(p, GetFileType(p))]
    /\ UNCHANGED <<disk, tmp, made, writes, h, u, last, records, history, ret, window, clears>>

\* 43-56: the file exists, its type is given; the previous handler is cleaned
\* up and self.handler set to None
LoadDrop(L, T, t) ==
    [loads |-> [L EXCEPT !.obj = IF L.ref = 0 THEN @
                                  ELSE [@ EXCEPT ![L.ref] = Cleanup(@, T).h],
                         !.ref = 0,
                         !.thread[t].pc = "create"],
     tmp |-> IF L.ref = 0 THEN T ELSE Cleanup(L.obj[L.ref], T).tmp]

load_drop(t) ==
    /\ loads.thread[t].pc = "check"
    /\ Exists(disk, loads.thread[t].path)
    /\ \E r \in {LoadDrop(loads, tmp, t)} :
        /\ loads' = r.loads
        /\ tmp' = r.tmp
        /\ u' = WithLoads(u, r.loads)
    /\ UNCHANGED <<disk, made, writes, h, last, records, history, ret, window, clears>>

\* 60: self.handler = self._create_handler(file_type)
LoadCreate(L, t) ==
    [L EXCEPT !.obj[t] = NewHandler(L.thread[t].type), !.ref = t, !.thread[t].pc = "call"]

load_create(t) ==
    /\ loads.thread[t].pc = "create"
    /\ loads' = LoadCreate(loads, t)
    /\ u' = WithLoads(u, loads')
    /\ UNCHANGED <<disk, tmp, made, writes, h, last, records, history, ret, window, clears>>

\* a directory as tempfile.mkdtemp leaves it
EmptyDir == [kind |-> "dir", by |-> "u", Export |-> EmptyDict, pathIDs |-> EmptyDict]

\* 63, self.handler.unpack_masterdata(file_path) up to the try block of the
\* handler (masterdata_handler.py 39-45): self.handler is read, and it is the
\* handler of whichever thread created one last, or None; n: the directories
\* made so far
LoadCall(L, T, n, t) ==
    IF L.ref = 0
    THEN [loads |-> [L EXCEPT !.thread[t].pc = "except"], tmp |-> T, made |-> n]
    ELSE [loads |-> [L EXCEPT !.obj[L.ref].current_file_path = L.thread[t].path,
                              !.obj[L.ref].temp_dir = TmpName(n + 1),
                              !.thread[t].pc = "unpack",
                              !.thread[t].self = L.ref],
          tmp |-> [T EXCEPT ![TmpName(n + 1)] = EmptyDir],
          made |-> n + 1]

load_call(t) ==
    /\ loads.thread[t].pc = "call"
    /\ made < MaxTmp
    /\ \E r \in {LoadCall(loads, tmp, made, t)} :
        /\ loads' = r.loads
        /\ tmp' = r.tmp
        /\ made' = r.made
        /\ u' = WithLoads(u, r.loads)
    /\ UNCHANGED <<disk, writes, h, last, records, history, ret, window, clears>>

\* the try block of unpack_masterdata (47-58) on the handler the call was
\* made on: _unpack_assets raises RuntimeError when temp_dir is None by now
LoadUnpack(hd, D, T, file_path, pick) ==
    IF hd.temp_dir = None THEN UnpackFailed(Cleanup(hd, T))
    ELSE WithDir(hd, UnpackAssets(D[file_path], file_path, "u", 0), T, file_path,
                 pick, FALSE)

load_unpack(t) ==
    /\ loads.thread[t].pc = "unpack"
    /\ \E s \in {loads.thread[t].self} :
       \E pick \in UnpackPicks(loads.obj[s].kind, disk[loads.thread[t].path],
                               loads.thread[t].path, 0) :
       \E r \in {LoadUnpack(loads.obj[s], disk, tmp, loads.thread[t].path, pick)} :
        /\ loads' = [loads EXCEPT !.obj[s] = r.h,
                                  !.thread[t].data = r.data,
                                  !.thread[t].pc = IF r.res = "ok" /\ r.data # NoData
                                                   THEN "finish" ELSE "except"]
        /\ tmp' = r.tmp
        /\ u' = WithLoads(u, loads')
    /\ UNCHANGED <<disk, made, writes, h, last, records, history, ret, window, clears>>

\* 68-72: the unpacker takes the path, the type and the data, and the thread
\* asks the main thread to show them
LoadFinish(ud, th) ==
    [ud EXCEPT !.current_file_path = th.path,
               !.current_file_type = th.type,
               !.trainer_data = th.data]

load_finish(t) ==
    /\ loads.thread[t].pc = "finish"
    /\ u' = LoadFinish(u, loads.thread[t])
    /\ loads' = [loads EXCEPT !.thread[t].pc = "loaded"]
    /\ UNCHANGED <<disk, tmp, made, writes, h, last, records, history, ret, window, clears>>

\* 74-78: the handler self.handler refers to now is cleaned up
LoadExcept(L, T, t) ==
    [loads |-> [L EXCEPT !.obj = IF L.ref = 0 THEN @
                                  ELSE [@ EXCEPT ![L.ref] = Cleanup(@, T).h],
                         !.ref = 0,
                         !.thread[t].pc = "failed"],
     tmp |-> IF L.ref = 0 THEN T ELSE Cleanup(L.obj[L.ref], T).tmp]

load_except(t) ==
    /\ loads.thread[t].pc = "except"
    /\ \E r \in {LoadExcept(loads, tmp, t)} :
        /\ loads' = r.loads
        /\ tmp' = r.tmp
        /\ u' = WithLoads(u, r.loads)
    /\ UNCHANGED <<disk, made, writes, h, last, records, history, ret, window, clears>>

\* the callback in the main thread (1089-1110, 1144-1165): the window keeps
\* the path of the load and shows what the unpacker holds by now
data_loaded(t) ==
    /\ loads.thread[t].pc = "loaded"
    /\ loads' = [loads EXCEPT !.thread[t].pc = "done",
                              !.shown = [path |-> loads.thread[t].path,
                                         data |-> u.trainer_data]]
    /\ UNCHANGED <<disk, tmp, made, writes, h, u, last, records, history, ret, window, clears>>

\* a window with both containers detected and no load started
InitThreads ==
    /\ disk = InitDisk(Bundle("source", TrainerBundle), Bundle("source", PersonalBundle))
    /\ h = NewHandler("masterdatas")
    /\ InitRest

NextThreads ==
    \E t \in Threads :
        \/ start_load(t)
        \/ load_drop(t)
        \/ load_create(t)
        \/ load_call(t)
        \/ load_unpack(t)
        \/ load_finish(t)
        \/ load_except(t)
        \/ data_loaded(t)

SpecThreads == InitThreads /\ [][NextThreads]_vars

\* a load is in progress: load_trainer_file was entered and has not returned
InProgress(t) ==
    loads.thread[t].pc \in {"check", "create", "call", "unpack", "finish", "except"}

\* C25: loads on the one FileUnpacker are sequential: no two of them are in
\* progress at once, and the handler a load is extracting with stays the
\* unpacker's handler, with its temporary directory on disk, until the load
\* has returned
C25_LoadsSequential ==
    \A t \in Threads :
        /\ InProgress(t) => \A o \in Threads \ {t} : ~InProgress(o)
        /\ loads.thread[t].pc \in {"unpack", "finish"}
             => /\ loads.ref = loads.thread[t].self
                /\ loads.obj[loads.thread[t].self].temp_dir # None
                /\ DirExists(tmp, loads.obj[loads.thread[t].self].temp_dir)

\* the second part alone: a load that has entered unpack_masterdata and not
\* yet extracted still has its handler and its temporary directory
ExtractingLoadKeepsHandler ==
    \A t \in Threads :
        loads.thread[t].pc = "unpack"
             => /\ loads.ref = loads.thread[t].self
                /\ loads.obj[loads.thread[t].self].temp_dir # None
                /\ DirExists(tmp, loads.obj[loads.thread[t].self].temp_dir)

====
